---- MODULE Spec2Model ----
(***************************************************************************)
(* Model of the path-restriction checkers of                               *)
(* src/fuzzing_tests/test_file_path_restrictions.py:                       *)
(* FilePathRestrictionsFuzzer.is_path_allowed (the prefix-comparing        *)
(* reproduction of the C++ IsPathAllowed) and is_path_allowed_safe.        *)
(*                                                                         *)
(* A Python str is a sequence of one-character strings; the null           *)
(* character is the token NUL.  The library calls the two methods make     *)
(* (os.path.expanduser, isabs, abspath, pathlib.Path.resolve) are          *)
(* operators that compute what CPython 3.11 computes, posixpath on a       *)
(* non-Windows platform and ntpath on Windows.  A call that raises         *)
(* yields the exception's class instead of a value.                        *)
(***************************************************************************)
EXTENDS Integers, Sequences, FiniteSets, TLC

VARIABLES
    platform,      \* platform.system(): "Linux" or "Windows"
    allowed_root,  \* self.allowed_root
    cwd,           \* os.getcwd(); <<>> when the working directory was removed
    fs,            \* the symbolic links on disk: records [link, target]
    pc,            \* "ready": no call in progress; "returned": a call returned
    op,            \* the method last called
    arg,           \* its argument: [type |-> Python type, s |-> the str]
    ret,           \* the value it returned
    exc,           \* the exception raised inside its try block, or "none"
    escaped,       \* TRUE iff an exception left the method
    calls,         \* concurrent calls of is_path_allowed: per thread, its
                   \* position in the method and its local variables
    auth_pc,       \* "ready" or "returned", for ClientAuthenticationFuzzer
    auth_op,       \* the method of ClientAuthenticationFuzzer last called
    password,      \* its password argument: [type, s], s the code points
    server_response, \* its server_response argument
    auth_ret,      \* what it returned: [success, message, value, code]
    attempts,      \* concurrent authentication attempts: per worker thread,
                   \* its position in full_authentication_flow, the stages
                   \* it ran and their results
    results,       \* the list the workers append (password, result) to
    test,          \* the test of TestFilePathRestrictionsFuzzing that runs
    test_pc,       \* its position: "idle", "call", "check", "raised",
                   \* "passed", "failed"
    test_left,     \* the calls of a checker its loop has still to make
    checker_out,   \* what the last call of a checker returned or raised
    test_exc,      \* the exception raised in the test's try block, or "none"
    argv,          \* the command line of run_fuzzing_tests.py: [parallel,
                   \* test, security]
    run_pc,        \* the position of main: "none", "main", "sequential",
                   \* "parallel", "exit", "exited"
    to_run,        \* the modules run_single_test has still to be called on
    jobs,          \* per thread (0: the main thread, others: the executor's
                   \* workers), its position in run_single_test
    subprocess_out, \* per module, what its last pytest subprocess did
    runner_results, \* self.results of the FuzzingTestRunner
    summaries,     \* the summaries generate_summary_report wrote, in order
    exit_status    \* the exit status of the process, NotExited before

envVars == <<platform, allowed_root, cwd, fs>>
callVars == <<pc, op, arg, ret, exc, escaped>>
threadVars == <<calls>>
authVars == <<auth_pc, auth_op, password, server_response, auth_ret>>
flowVars == <<attempts, results>>
testVars == <<test, test_pc, test_left, checker_out, test_exc>>
runnerVars == <<argv, run_pc, to_run, jobs, subprocess_out, runner_results,
                summaries, exit_status>>

vars == <<platform, allowed_root, cwd, fs, pc, op, arg, ret, exc, escaped,
          calls, auth_pc, auth_op, password, server_response, auth_ret,
          attempts, results, test, test_pc, test_left, checker_out, test_exc,
          argv, run_pc, to_run, jobs, subprocess_out, runner_results,
          summaries, exit_status>>

----------------------------------------------------------------------------
(* Bounds of the model.                                                    *)

\* Longest string of free characters appended to a candidate's prefix.
MaxSuffix == 3

\* Symbolic links followed in one lookup before it is given up as a loop
\* (the kernel's ELOOP limit, 40 on Linux, scaled down); the chain of links
\* on disk is one link longer.
MaxHops == 3

----------------------------------------------------------------------------
(* Characters and strings.                                                 *)

NUL == "NUL"
Slash == "/"
BSlash == "\\"
Dot == "."
Tilde == "~"
Colon == ":"

LowerCase == <<"a","b","c","d","e","f","g","h","i","j","k","l","m",
               "n","o","p","q","r","s","t","u","v","w","x","y","z">>
UpperCase == <<"A","B","C","D","E","F","G","H","I","J","K","L","M",
               "N","O","P","Q","R","S","T","U","V","W","X","Y","Z">>

IndexIn(c, alphabet) ==
    IF \E i \in 1..Len(alphabet) : alphabet[i] = c
    THEN CHOOSE i \in 1..Len(alphabet) : alphabet[i] = c
    ELSE 0

\* str.upper(), str.lower(), str.swapcase() on one character
UpperChar(c) == IF IndexIn(c, LowerCase) > 0 THEN UpperCase[IndexIn(c, LowerCase)] ELSE c
LowerChar(c) == IF IndexIn(c, UpperCase) > 0 THEN LowerCase[IndexIn(c, UpperCase)] ELSE c
SwapChar(c) ==
    IF IndexIn(c, LowerCase) > 0 THEN UpperCase[IndexIn(c, LowerCase)]
    ELSE IF IndexIn(c, UpperCase) > 0 THEN LowerCase[IndexIn(c, UpperCase)]
    ELSE c

Upper(s) == [i \in 1..Len(s) |-> UpperChar(s[i])]
Lower(s) == [i \in 1..Len(s) |-> LowerChar(s[i])]
SwapCase(s) == [i \in 1..Len(s) |-> SwapChar(s[i])]

\* str.replace(a, b) for single characters a, b
Replace(s, a, b) == [i \in 1..Len(s) |-> IF s[i] = a THEN b ELSE s[i]]

\* str.startswith(p)
StartsWith(s, p) == Len(p) <= Len(s) /\ SubSeq(s, 1, Len(p)) = p

\* s[n:]
From(s, n) == SubSeq(s, n + 1, Len(s))

\* str.find(c, start) for a character drawn from seps; Len(s) when absent
\* (0-based, as Python counts)
RECURSIVE FindFrom(_, _, _)
FindFrom(s, seps, start) ==
    IF start >= Len(s) THEN Len(s)
    ELSE IF s[start + 1] \in seps THEN start
    ELSE FindFrom(s, seps, start + 1)

\* number of leading characters of s that are in seps
RECURSIVE LeadCount(_, _)
LeadCount(s, seps) ==
    IF s # <<>> /\ Head(s) \in seps THEN 1 + LeadCount(Tail(s), seps) ELSE 0

\* str.rstrip(c)
RECURSIVE RStrip(_, _)
RStrip(s, c) ==
    IF s # <<>> /\ s[Len(s)] = c THEN RStrip(SubSeq(s, 1, Len(s) - 1), c) ELSE s

\* str.split(sep): the pieces between separators, empty pieces included
RECURSIVE SplitAcc(_, _, _, _)
SplitAcc(s, seps, cur, acc) ==
    IF s = <<>> THEN Append(acc, cur)
    ELSE IF Head(s) \in seps THEN SplitAcc(Tail(s), seps, <<>>, Append(acc, cur))
    ELSE SplitAcc(Tail(s), seps, Append(cur, Head(s)), acc)

Split(s, seps) == SplitAcc(s, seps, <<>>, <<>>)

\* sep.join(comps)
RECURSIVE JoinWith(_, _)
JoinWith(comps, sep) ==
    IF comps = <<>> THEN <<>>
    ELSE IF Len(comps) = 1 THEN comps[1]
    ELSE comps[1] \o <<sep>> \o JoinWith(Tail(comps), sep)

HasNul(s) == \E i \in 1..Len(s) : s[i] = NUL

\* the result of a library call: a value, or the class of the exception raised
Ok(v) == [kind |-> "ok", val |-> v]
Raise(k) == [kind |-> k, val |-> <<>>]

----------------------------------------------------------------------------
(* posixpath: os.path on a non-Windows platform.                           *)

DotSeg == <<Dot>>
DotDot == <<Dot, Dot>>

\* HOME of the process and the one other account of the password database
PosixHome == <<"/", "h", "o", "m", "e", "/", "C", "M", "U">>
PwName == <<"a">>
PwDir == <<"/", "t", "/", "a">>

\* os.path.isabs
PosixIsAbs(p) == StartsWith(p, <<Slash>>)

\* os.path.expanduser: "~" and "~/..." take HOME, "~name..." the account's
\* directory; an unknown name leaves the path as it is, and a name holding
\* a null character makes pwd.getpwnam raise ValueError
PosixExpandUser(p) ==
    IF ~StartsWith(p, <<Tilde>>) THEN Ok(p)
    ELSE LET i == FindFrom(p, {Slash}, 1)
             name == SubSeq(p, 2, i)
         IN  IF i = 1 THEN
                 LET r == RStrip(PosixHome, Slash) \o From(p, i)
                 IN  Ok(IF r = <<>> THEN <<Slash>> ELSE r)
             ELSE IF HasNul(name) THEN Raise("ValueError")
             ELSE IF name # PwName THEN Ok(p)
             ELSE LET r == RStrip(PwDir, Slash) \o From(p, i)
                  IN  Ok(IF r = <<>> THEN <<Slash>> ELSE r)

\* the loop of os.path.normpath over the components
RECURSIVE PosixNormComps(_, _, _)
PosixNormComps(comps, initial_slashes, new_comps) ==
    IF comps = <<>> THEN new_comps
    ELSE LET comp == Head(comps)
             rest == Tail(comps)
         IN  IF comp = <<>> \/ comp = DotSeg
             THEN PosixNormComps(rest, initial_slashes, new_comps)
             ELSE IF \/ comp # DotDot
                     \/ (initial_slashes = 0 /\ new_comps = <<>>)
                     \/ (new_comps # <<>> /\ new_comps[Len(new_comps)] = DotDot)
             THEN PosixNormComps(rest, initial_slashes, Append(new_comps, comp))
             ELSE IF new_comps # <<>>
             THEN PosixNormComps(rest, initial_slashes,
                                 SubSeq(new_comps, 1, Len(new_comps) - 1))
             ELSE PosixNormComps(rest, initial_slashes, new_comps)

\* os.path.normpath
PosixNormpath(p) ==
    IF p = <<>> THEN DotSeg
    ELSE LET lead == LeadCount(p, {Slash})
             initial_slashes == IF lead = 2 THEN 2 ELSE IF lead > 0 THEN 1 ELSE 0
             joined == JoinWith(PosixNormComps(Split(p, {Slash}), initial_slashes, <<>>), Slash)
             path == [i \in 1..initial_slashes |-> Slash] \o joined
         IN  IF path = <<>> THEN DotSeg ELSE path

\* os.path.join(a, b)
PosixJoin(a, b) ==
    IF StartsWith(b, <<Slash>>) THEN b
    ELSE IF a = <<>> \/ a[Len(a)] = Slash THEN a \o b
    ELSE a \o <<Slash>> \o b

\* os.path.abspath under working directory wd; os.getcwd raises
\* FileNotFoundError when the working directory no longer exists
PosixAbspath(p, wd) ==
    IF PosixIsAbs(p) THEN Ok(PosixNormpath(p))
    ELSE IF wd = <<>> THEN Raise("FileNotFoundError")
    ELSE Ok(PosixNormpath(PosixJoin(wd, p)))

----------------------------------------------------------------------------
(* pathlib.Path(p).resolve() on a non-Windows platform.                    *)

\* the components pathlib keeps of a path or of a link's target: the empty
\* ones and the "." ones are dropped
RECURSIVE PathParts(_)
PathParts(comps) ==
    IF comps = <<>> THEN <<>>
    ELSE IF Head(comps) = <<>> \/ Head(comps) = DotSeg THEN PathParts(Tail(comps))
    ELSE <<Head(comps)>> \o PathParts(Tail(comps))

Parts(p) == PathParts(Split(p, {Slash}))

\* str() of an absolute path given by its components
PartsStr(comps) == <<Slash>> \o JoinWith(comps, Slash)

\* a path of the walk: absolute or relative to the working directory, and
\* its components; a relative one keeps its ".." components in front
AbsPath(comps) == [abs |-> TRUE, comps |-> comps]
RelPath(comps) == [abs |-> FALSE, comps |-> comps]

\* posixpath.split(path)[0] as the walk uses it for "..": the parent of an
\* absolute path (of "/", "/" itself); for a relative path "" and the paths
\* of ".." components get one more ".."
Parent(path) ==
    IF path.comps = <<>>
    THEN IF path.abs THEN path ELSE RelPath(<<DotDot>>)
    ELSE IF path.comps[Len(path.comps)] = DotDot
    THEN [path EXCEPT !.comps = Append(path.comps, DotDot)]
    ELSE [path EXCEPT !.comps = SubSeq(path.comps, 1, Len(path.comps) - 1)]

\* the components of the absolute path the kernel looks a path up at;
\* wd is not <<>>
Lookup(path, wd) ==
    IF path.abs THEN PosixNormComps(path.comps, 1, <<>>)
    ELSE PosixNormComps(Parts(wd) \o path.comps, 1, <<>>)

\* os.lstat(path) finds a symbolic link; nothing is found under a removed
\* working directory
IsLink(links, path, wd) ==
    /\ links # {}
    /\ path.abs \/ wd # <<>>
    /\ LET where == PartsStr(Lookup(path, wd))
       IN  \E l \in links : l.link = where

\* os.readlink(path)
LinkTarget(links, path, wd) ==
    LET where == PartsStr(Lookup(path, wd))
    IN  (CHOOSE l \in links : l.link = where).target

\* the result of a walk: the path reached, whether every link on it was
\* resolved, and the links resolved so far with their real paths
Walked(path, ok, done) == [kind |-> "ok", path |-> path, ok |-> ok, done |-> done]
WalkRaise(k) == [kind |-> k, path |-> AbsPath(<<>>), ok |-> FALSE, done |-> {}]

\* JoinRealpath with a link replaced by its target as it is written, the
\* target's own links left unresolved
RECURSIVE JoinRealpathOneHop(_, _, _, _, _, _)
JoinRealpathOneHop(links, wd, path, rest, pending, done) ==
    IF rest = <<>> THEN Walked(path, TRUE, done)
    ELSE LET name == Head(rest)
             newpath == [path EXCEPT !.comps = Append(path.comps, name)]
         IN  IF name = DotDot
             THEN JoinRealpathOneHop(links, wd, Parent(path), Tail(rest), pending, done)
             ELSE IF HasNul(name) THEN WalkRaise("ValueError")
             ELSE IF ~IsLink(links, newpath, wd)
             THEN JoinRealpathOneHop(links, wd, newpath, Tail(rest), pending, done)
             ELSE LET target == LinkTarget(links, newpath, wd)
                  IN  JoinRealpathOneHop(links, wd,
                          IF PosixIsAbs(target) THEN AbsPath(Parts(target))
                          ELSE [path EXCEPT !.comps = path.comps \o Parts(target)],
                          Tail(rest), pending, done)

\* posixpath._joinrealpath (strict=False): path is the real path reached so
\* far, rest the components still to take.  ".." takes the parent; a
\* component that is a symbolic link is replaced by the real path of its
\* target, kept in seen (here: pending while its target is being walked,
\* done with its real path afterwards); os.lstat raises ValueError on a
\* name holding a null character.  Meeting a pending link again is a link
\* loop: the walk stops and returns the link's path joined with the rest,
\* unresolved.
RECURSIVE JoinRealpath(_, _, _, _, _, _)
JoinRealpath(links, wd, path, rest, pending, done) ==
    IF rest = <<>> THEN Walked(path, TRUE, done)
    ELSE LET name == Head(rest)
             newpath == [path EXCEPT !.comps = Append(path.comps, name)]
         IN  IF name = DotDot
             THEN JoinRealpath(links, wd, Parent(path), Tail(rest), pending, done)
             ELSE IF HasNul(name) THEN WalkRaise("ValueError")
             ELSE IF ~IsLink(links, newpath, wd)
             THEN JoinRealpath(links, wd, newpath, Tail(rest), pending, done)
             ELSE IF \E d \in done : d.link = newpath
             THEN JoinRealpath(links, wd,
                               (CHOOSE d \in done : d.link = newpath).real,
                               Tail(rest), pending, done)
             ELSE IF newpath \in pending
             THEN Walked([newpath EXCEPT !.comps = newpath.comps \o Tail(rest)], FALSE, done)
             ELSE LET target == LinkTarget(links, newpath, wd)
                      inner == JoinRealpath(links, wd,
                                            IF PosixIsAbs(target) THEN AbsPath(<<>>) ELSE path,
                                            Parts(target), pending \cup {newpath}, done)
                  IN  IF inner.kind # "ok" THEN inner
                      ELSE IF ~inner.ok
                      THEN Walked([inner.path EXCEPT !.comps = inner.path.comps \o Tail(rest)],
                                  FALSE, inner.done)
                      ELSE JoinRealpath(links, wd, inner.path, Tail(rest), pending,
                                        inner.done \cup {[link |-> newpath, real |-> inner.path]})

\* os.stat(path) fails with ELOOP: the kernel, following every symbolic
\* link it meets, has followed more than MaxHops of them.  path is the
\* absolute path reached so far, rest the components still to take.
RECURSIVE StatLoops(_, _, _, _)
StatLoops(links, path, rest, hops) ==
    IF rest = <<>> THEN FALSE
    ELSE LET name == Head(rest)
             newpath == AbsPath(Append(path.comps, name))
         IN  IF name = DotDot
             THEN StatLoops(links, Parent(path), Tail(rest), hops)
             ELSE IF ~IsLink(links, newpath, <<Slash>>)
             THEN StatLoops(links, newpath, Tail(rest), hops)
             ELSE IF hops = MaxHops THEN TRUE
             ELSE LET target == LinkTarget(links, newpath, <<Slash>>)
                  IN  StatLoops(links,
                                IF PosixIsAbs(target) THEN AbsPath(<<>>) ELSE path,
                                Parts(target) \o Tail(rest), hops + 1)

\* str(pathlib.Path(p).resolve()): os.path.realpath walks the path and makes
\* the result absolute and normal, for which os.getcwd raises
\* FileNotFoundError when the path is relative and the working directory
\* was removed.  After a walk that a link loop stopped, the result is
\* checked with os.stat: ELOOP is reported as RuntimeError, a null
\* character as ValueError, and any other failure is ignored.
PosixResolve(p, wd, links) ==
    LET r == JoinRealpath(links, wd,
                          IF PosixIsAbs(p) THEN AbsPath(<<>>) ELSE RelPath(<<>>),
                          Parts(p), {}, {})
    IN  IF r.kind # "ok" THEN Raise(r.kind)
        ELSE IF ~r.path.abs /\ wd = <<>> THEN Raise("FileNotFoundError")
        ELSE LET real == Lookup(r.path, wd)
             IN  IF r.ok THEN Ok(PartsStr(real))
                 ELSE IF \E i \in 1..Len(real) : HasNul(real[i]) THEN Raise("ValueError")
                 ELSE IF StatLoops(links, AbsPath(<<>>), real, 0) THEN Raise("RuntimeError")
                 ELSE Ok(PartsStr(real))

----------------------------------------------------------------------------
(* ntpath: os.path on Windows.                                             *)

NtSeps == {BSlash, Slash}

\* USERPROFILE and USERNAME of the process
UserProfile == <<"C", ":", "\\", "U", "s", "e", "r", "s", "\\", "C", "M", "U">>
UserName == <<"C", "M", "U">>
ProfilesDir == <<"C", ":", "\\", "U", "s", "e", "r", "s">>

\* os.path.isabs: a leading separator, or a drive letter followed by a root
NtIsAbs(p) ==
    LET s == Replace(SubSeq(p, 1, IF Len(p) < 3 THEN Len(p) ELSE 3), Slash, BSlash)
    IN  StartsWith(s, <<BSlash>>) \/ (Len(s) = 3 /\ SubSeq(s, 2, 3) = <<Colon, BSlash>>)

\* os.path.expanduser: "~" takes USERPROFILE, "~name" the directory name
\* beside it
NtExpandUser(p) ==
    IF ~StartsWith(p, <<Tilde>>) THEN Ok(p)
    ELSE LET i == FindFrom(p, NtSeps, 1)
             target_user == SubSeq(p, 2, i)
         IN  IF i = 1 \/ target_user = UserName
             THEN Ok(UserProfile \o From(p, i))
             ELSE Ok(ProfilesDir \o <<BSlash>> \o target_user \o From(p, i))

\* os.path.splitdrive for a drive letter (the paths normalized here start
\* with the working directory, so they carry no UNC drive)
NtDrive(p) == IF Len(p) >= 2 /\ p[2] = Colon THEN SubSeq(p, 1, 2) ELSE <<>>

\* the loop of os.path.normpath over the components; rooted says the path
\* has a root, at which ".." is dropped
RECURSIVE NtNormComps(_, _, _)
NtNormComps(comps, rooted, new_comps) ==
    IF comps = <<>> THEN new_comps
    ELSE LET comp == Head(comps)
             rest == Tail(comps)
         IN  IF comp = <<>> \/ comp = DotSeg
             THEN NtNormComps(rest, rooted, new_comps)
             ELSE IF comp = DotDot
             THEN IF new_comps # <<>> /\ new_comps[Len(new_comps)] # DotDot
                  THEN NtNormComps(rest, rooted, SubSeq(new_comps, 1, Len(new_comps) - 1))
                  ELSE IF new_comps = <<>> /\ rooted
                  THEN NtNormComps(rest, rooted, new_comps)
                  ELSE NtNormComps(rest, rooted, Append(new_comps, comp))
             ELSE NtNormComps(rest, rooted, Append(new_comps, comp))

\* os.path.normpath
NtNormpath(p) ==
    LET q == Replace(p, Slash, BSlash)
        drive == NtDrive(q)
        tail == From(q, Len(drive))
        rooted == StartsWith(tail, <<BSlash>>)
        prefix == IF rooted THEN Append(drive, BSlash) ELSE drive
        comps == NtNormComps(Split(tail, {BSlash}), rooted, <<>>)
        path == prefix \o JoinWith(comps, BSlash)
    IN  IF path = <<>> THEN DotSeg ELSE path

\* os.path.join(a, b) for b without drive and without root
NtJoin(a, b) ==
    IF a # <<>> /\ a[Len(a)] \notin {BSlash, Slash, Colon}
    THEN a \o <<BSlash>> \o b
    ELSE a \o b

\* os.path.abspath as ntpath computes it itself (join with the working
\* directory, then normpath); the Win32 GetFullPathNameW it prefers differs
\* from this only in the trailing dots and spaces of the last component
NtAbspath(p, wd) ==
    IF NtIsAbs(p) THEN Ok(NtNormpath(p))
    ELSE Ok(NtNormpath(NtJoin(wd, p)))

----------------------------------------------------------------------------
(* The environment and the inputs.                                         *)

allowed_root_windows ==
    <<"C", ":", "\\", "U", "s", "e", "r", "s", "\\", "C", "M", "U", "\\",
      "R", "a", "w", "R", "e", "c", "o", "r", "d", "s">>
allowed_root_linux ==
    <<"/", "h", "o", "m", "e", "/", "C", "M", "U", "/",
      "R", "a", "w", "R", "e", "c", "o", "r", "d", "s">>

\* the directories of the symbolic-link test: temp_dir/allowed, and the
\* link temp_dir/allowed/a to the file temp_dir/forbidden/a
allowed_dir == <<"/", "t", "/", "a">>
symlink_path == <<"/", "t", "/", "a", "/", "a">>
forbidden_file == <<"/", "t", "/", "f", "/", "a">>

\* the filesystem root, the boundary case of a containment rule
FsRoot == <<Slash>>

\* the link of the symbolic-link test, and the link back from its target,
\* which closes a cycle
TestLink == [link |-> symlink_path, target |-> forbidden_file]
BackLink == [link |-> forbidden_file, target |-> symlink_path]

\* a chain of MaxHops + 1 links in allowed_dir that ends at a plain file of
\* allowed_dir: the links are named "aa", "ab", "ac", ... and each points
\* to the next
ChainPath(i) ==
    allowed_dir \o <<Slash, LowerCase[((i - 1) \div 26) + 1], LowerCase[((i - 1) % 26) + 1]>>
ChainLinks ==
    {[link |-> ChainPath(i), target |-> ChainPath(i + 1)] : i \in 1..(MaxHops + 1)}

\* the working directories of the process; <<>> is a removed one
PosixCwds == {<<Slash>>, <<"/", "t">>, allowed_dir, <<>>}
NtCwds == {<<"C", ":", "\\", "w">>, allowed_root_windows}
Cwds(plat) == IF plat = "Windows" THEN NtCwds ELSE PosixCwds

\* the free characters of a candidate
SuffixChars == {Slash, BSlash, Dot, Tilde, "a", NUL}
FreeSuffixes == UNION {[1..n -> SuffixChars] : n \in 0..MaxSuffix}

\* longer suffixes of the shapes the test suite builds: nested components,
\* trailing characters, "./" segments, doubled and mixed separators,
\* traversal out of the root
SuiteSuffixes ==
    { <<"/", "a", "/", "a">>,
      <<"/", "a", "/", "a", "/">>,
      <<"/", "a", "/", "a", ".">>,
      <<"/", "a", "/", "a", "\\">>,
      <<"/", "a", "\\", "a">>,
      <<"\\", "a", "\\", "a">>,
      <<"/", "/", "a", "/", ".", "/", "a">>,
      <<"/", ".", "/", "a">>,
      <<"/", ".", ".", "/", ".", ".", "/", "a">>,
      <<"/", "a", "/", ".", ".", "/", ".", ".">>,
      <<"/", "a", "/", ".", ".">> }

\* a network path written with a scheme, as "ftp://server/f"
SchemePath == <<"a", "a", ":", "/", "/", "a">>

\* the percent-encoded patterns of the encoding test, and its candidates'
\* suffixes "/" + clean_filename + encoding_pattern + ".txt"
EncodingPatterns ==
    { <<"%", "2", "e", "%", "2", "e", "%", "2", "f">>,
      <<"%", "c", "0", "%", "a", "f">>,
      <<"%", "2", "f">>,
      <<"%", "5", "c">>,
      <<"%", "0", "0">>,
      <<"%", "2", "e", "%", "2", "e", "%", "5", "c">>,
      <<"%", "2", "5", "2", "e", "%", "2", "5", "2", "e", "%", "2", "5", "2", "f">> }
CleanFilenames == {<<"a">>, <<"a", ".", "a">>, <<".", ".">>}
EncodedSuffixes ==
    {<<Slash>> \o name \o pat \o <<".", "t", "x", "t">> :
        name \in CleanFilenames, pat \in EncodingPatterns}

Suffixes == FreeSuffixes \cup SuiteSuffixes \cup {SchemePath} \cup EncodedSuffixes

\* what a candidate starts with: nothing, the root, the root in another
\* case, the root with the other separator
Prefixes(root) ==
    {<<>>, root, Upper(root), Lower(root), SwapCase(root),
     Replace(root, Slash, BSlash), Replace(root, BSlash, Slash)}

Str(s) == [type |-> "str", s |-> s]
NonStr(t) == [type |-> t, s |-> <<>>]
NonStrTypes == {"NoneType", "int", "list"}

Candidates(root) ==
    {Str(pre \o suf) : pre \in Prefixes(root), suf \in Suffixes}
        \cup {NonStr(t) : t \in NonStrTypes}

----------------------------------------------------------------------------
(* FilePathRestrictionsFuzzer.                                             *)

\* os.path of the platform
IsAbs(plat, p) == IF plat = "Windows" THEN NtIsAbs(p) ELSE PosixIsAbs(p)
ExpandUser(plat, p) == IF plat = "Windows" THEN NtExpandUser(p) ELSE PosixExpandUser(p)
Abspath(plat, p, wd) == IF plat = "Windows" THEN NtAbspath(p, wd) ELSE PosixAbspath(p, wd)

\* __init__: the allowed root of the platform
InitRoot(plat) ==
    IF plat = "Windows" THEN allowed_root_windows ELSE allowed_root_linux

\* the canonicalization of is_path_allowed: expanduser for a leading "~",
\* then abspath unless the path is absolute
Canonicalize(plat, p, wd) ==
    LET expanded == IF StartsWith(p, <<Tilde>>) THEN ExpandUser(plat, p) ELSE Ok(p)
    IN  IF expanded.kind # "ok" THEN expanded
        ELSE IF ~IsAbs(plat, expanded.val) THEN Abspath(plat, expanded.val, wd)
        ELSE expanded

\* the canonicalization of is_path_allowed_safe on a non-Windows platform:
\* "\" becomes "/", then Path.resolve
CanonicalizeSafe(p, wd, links) == PosixResolve(Replace(p, BSlash, Slash), wd, links)

\* PrefixMatch with ">" for ">=": the root itself no longer matches
PrefixMatchStrict(file_path, root_path) ==
    Len(file_path) > Len(root_path) /\ StartsWith(file_path, root_path)

\* urllib.parse.unquote for the escapes of ".", "/", "\", "%" and the null
\* character
RECURSIVE PercentDecode(_)
PercentDecode(s) ==
    IF Len(s) < 3 THEN s
    ELSE LET hex == SubSeq(s, 2, 3)
             rest == SubSeq(s, 4, Len(s))
         IN  IF s[1] # "%" THEN <<s[1]>> \o PercentDecode(Tail(s))
             ELSE IF hex = <<"2", "e">> THEN <<Dot>> \o PercentDecode(rest)
             ELSE IF hex = <<"2", "f">> THEN <<Slash>> \o PercentDecode(rest)
             ELSE IF hex = <<"5", "c">> THEN <<BSlash>> \o PercentDecode(rest)
             ELSE IF hex = <<"2", "5">> THEN <<"%">> \o PercentDecode(rest)
             ELSE IF hex = <<"0", "0">> THEN <<NUL>> \o PercentDecode(rest)
             ELSE <<s[1]>> \o PercentDecode(Tail(s))

\* PrefixMatch on the candidate decoded and normalized first
PrefixMatchDecoded(file_path, root_path) ==
    Len(PosixNormpath(PercentDecode(file_path))) >= Len(root_path)
        /\ StartsWith(PosixNormpath(PercentDecode(file_path)), root_path)

\* the comparison of is_path_allowed: the root as a string prefix
PrefixMatch(file_path, root_path) ==
    Len(file_path) >= Len(root_path) /\ StartsWith(file_path, root_path)

\* the try block of is_path_allowed: the decision, or the exception raised.
\* A non-string has no startswith (AttributeError).  The print calls write
\* to a stdout that accepts every string; they change no state.
IsPathAllowedTry(plat, root, wd, a) ==
    IF a.type # "str" THEN Raise("AttributeError")
    ELSE LET expanded == IF StartsWith(a.s, <<Tilde>>) THEN ExpandUser(plat, a.s) ELSE Ok(a.s)
         IN  IF expanded.kind # "ok" THEN expanded
             ELSE LET file_path == IF ~IsAbs(plat, expanded.val)
                                   THEN Abspath(plat, expanded.val, wd)
                                   ELSE expanded
                  IN  IF file_path.kind # "ok" THEN file_path
                      ELSE LET root_path == IF ~IsAbs(plat, root)
                                            THEN Abspath(plat, root, wd)
                                            ELSE Ok(root)
                           IN  IF root_path.kind # "ok" THEN root_path
                               ELSE Ok(PrefixMatch(file_path.val, root_path.val))

\* the comparison of is_path_allowed_safe: the root itself, or the root
\* followed by a separator
BoundaryMatch(abs_str, root_str) ==
    \/ abs_str = root_str
    \/ StartsWith(abs_str, Append(root_str, Slash))
    \/ StartsWith(abs_str, Append(root_str, BSlash))

\* the try block of is_path_allowed_safe.  A non-string has no replace
\* (AttributeError).  On Windows, where replace is skipped, the calls with a
\* non-string argument are the ones modelled (see IsPathAllowedSafe):
\* pathlib.Path raises TypeError.
IsPathAllowedSafeTry(plat, root, wd, links, a) ==
    IF plat = "Windows" THEN Raise("TypeError")
    ELSE IF a.type # "str" THEN Raise("AttributeError")
    ELSE LET normalized_file_path == Replace(a.s, BSlash, Slash)
             abs_path == PosixResolve(normalized_file_path, wd, links)
         IN  IF abs_path.kind # "ok" THEN abs_path
             ELSE LET root_path == PosixResolve(root, wd, links)
                  IN  IF root_path.kind # "ok" THEN root_path
                      ELSE Ok(BoundaryMatch(abs_path.val, root_path.val))

\* ExceptionClasses of a handler written "except (OSError, ValueError)"
OsAndValueErrors == {"ValueError", "FileNotFoundError"}

\* the classes "except Exception" catches
ExceptionClasses ==
    {"AttributeError", "TypeError", "ValueError", "FileNotFoundError", "RuntimeError"}

\* ExceptReturn of a handler that returns True: fail-open
ExceptReturnFailOpen(r) ==
    IF r.kind = "ok" THEN [ret |-> r.val, exc |-> "none", escaped |-> FALSE]
    ELSE [ret |-> TRUE, exc |-> r.kind, escaped |-> FALSE]

\* try ... except Exception: return False
ExceptReturn(r) ==
    IF r.kind = "ok" THEN [ret |-> r.val, exc |-> "none", escaped |-> FALSE]
    ELSE IF r.kind \in ExceptionClasses THEN [ret |-> FALSE, exc |-> r.kind, escaped |-> FALSE]
    ELSE [ret |-> FALSE, exc |-> r.kind, escaped |-> TRUE]

is_path_allowed(plat, root, wd, a) == ExceptReturn(IsPathAllowedTry(plat, root, wd, a))

is_path_allowed_safe(plat, root, wd, links, a) ==
    ExceptReturn(IsPathAllowedSafeTry(plat, root, wd, links, a))

----------------------------------------------------------------------------
(* The state machine.                                                      *)

NoArg == NonStr("NoneType")

\* the threads that call is_path_allowed concurrently
MaxThreads == 2
Threads == 1..MaxThreads

\* a thread outside is_path_allowed: its local variables are unbound
Idle == [pc |-> "idle", arg |-> NoArg, file_path |-> <<>>, root_path |-> <<>>,
         ret |-> FALSE, exc |-> "none"]

\* no thread is inside is_path_allowed
NoCalls == calls = [t \in Threads |-> Idle]

\* what a method of ClientAuthenticationFuzzer returns: success (is_valid),
\* the message, the validated password of simulate_password_dialog and the
\* response code of full_authentication_flow; None stands where a method
\* returns no such element.  A message is the sequence of the pieces it is
\* put together from.
AuthResult(success, message, value, code) ==
    [success |-> success, message |-> message, value |-> value, code |-> code]

\* no method of ClientAuthenticationFuzzer was called
NoAuth ==
    /\ auth_pc = "ready"
    /\ auth_op = "none"
    /\ password = NoArg
    /\ server_response = "OK"
    /\ auth_ret = AuthResult(FALSE, <<>>, NoArg, "None")

\* what a call of a checker does: it returns a value, which is true or
\* false in a condition and is a bool or not, or it raises an exception
Returns(truthy, isbool) ==
    [kind |-> "return", truthy |-> truthy, isbool |-> isbool, class |-> "none"]
Raises(class) == [kind |-> "raise", truthy |-> FALSE, isbool |-> FALSE, class |-> class]

\* no test runs
NoTest ==
    /\ test = "none"
    /\ test_pc = "idle"
    /\ test_left = 0
    /\ checker_out = Returns(FALSE, TRUE)
    /\ test_exc = "none"

\* The threads of run_fuzzing_tests.py: 0 is the main thread, the others
\* are the worker threads of run_tests_parallel's executor.
max_workers == 2
RunnerThreads == 0..max_workers

\* what the pytest subprocess of a module did: it ended with a return code
\* after a duration, or subprocess.run raised an exception of class kind
NoOutcome == [kind |-> "none", returncode |-> 0, duration |-> 0]

\* an entry of self.results
Result(status, return_code, duration, stderr) ==
    [status |-> status, return_code |-> return_code, duration |-> duration,
     stderr |-> stderr]
NoResult == Result("none", 0, 0, "")

\* a thread outside run_single_test
NoJob == [pc |-> "idle", test_module |-> "none", out |-> NoOutcome, ret |-> NoResult]

\* the process has not exited
NotExited == -1

\* run_fuzzing_tests.py does not run
NoRun ==
    /\ argv = [parallel |-> FALSE, test |-> "", security |-> <<>>]
    /\ run_pc = "none"
    /\ to_run = <<>>
    /\ jobs = [t \in RunnerThreads |-> NoJob]
    /\ subprocess_out = [m \in {} |-> NoOutcome]
    /\ runner_results = [m \in {} |-> NoResult]
    /\ summaries = <<>>
    /\ exit_status = NotExited

\* Worker threads of one concurrent run of authentication attempts.
MaxWorkers == 2
Workers == 1..MaxWorkers

\* a worker thread that was not started
NotStarted ==
    [pc |-> "idle", password |-> NoArg, server_response |-> "OK", stages |-> <<>>,
     dialog |-> AuthResult(FALSE, <<>>, NoArg, "None"),
     network |-> AuthResult(FALSE, <<>>, NoArg, "None"),
     result |-> AuthResult(FALSE, <<>>, NoArg, "None")]

\* no worker thread was started, the list of results is empty
NoAttempts ==
    /\ attempts = [w \in Workers |-> NotStarted]
    /\ results = <<>>

Init ==
    /\ platform \in {"Linux", "Windows"}
    /\ allowed_root = InitRoot(platform)
    /\ cwd = IF platform = "Windows" THEN <<"C", ":", "\\", "w">> ELSE <<Slash>>
    /\ fs = {}
    /\ pc = "ready"
    /\ op = "none"
    /\ arg = NoArg
    /\ ret = FALSE
    /\ exc = "none"
    /\ escaped = FALSE
    /\ NoCalls
    /\ NoAuth
    /\ NoAttempts
    /\ NoTest
    /\ NoRun

\* the process changes (or loses) its working directory
Chdir ==
    /\ pc = "ready"
    /\ \E d \in Cwds(platform) : cwd' = d
    /\ UNCHANGED <<platform, allowed_root, fs, pc, op, arg, ret, exc, escaped>>
    /\ UNCHANGED <<threadVars, authVars, flowVars, testVars, runnerVars>>

\* os.symlink(forbidden_file, symlink_path), in a directory without the
\* chain of links
Symlink ==
    /\ pc = "ready"
    /\ platform # "Windows"
    /\ fs \cap ChainLinks = {}
    /\ fs' = fs \cup {TestLink}
    /\ UNCHANGED <<platform, allowed_root, cwd, pc, op, arg, ret, exc, escaped>>
    /\ UNCHANGED <<threadVars, authVars, flowVars, testVars, runnerVars>>

\* the target of the test's link is replaced by a link back to it: the two
\* links form a cycle
SymlinkCycle ==
    /\ pc = "ready"
    /\ TestLink \in fs
    /\ fs' = fs \cup {BackLink}
    /\ UNCHANGED <<platform, allowed_root, cwd, pc, op, arg, ret, exc, escaped>>
    /\ UNCHANGED <<threadVars, authVars, flowVars, testVars, runnerVars>>

\* the chain of links is created in the still empty allowed_dir
SymlinkChain ==
    /\ pc = "ready"
    /\ platform # "Windows"
    /\ fs = {}
    /\ fs' = ChainLinks
    /\ UNCHANGED <<platform, allowed_root, cwd, pc, op, arg, ret, exc, escaped>>
    /\ UNCHANGED <<threadVars, authVars, flowVars, testVars, runnerVars>>

\* fuzzer.allowed_root = r: the attribute is assigned after construction,
\* as the symbolic-link test does with its temporary directory
SetAllowedRoot ==
    /\ pc = "ready"
    /\ platform # "Windows"
    /\ \E r \in {allowed_dir, FsRoot} : allowed_root' = r
    /\ UNCHANGED <<platform, cwd, fs, pc, op, arg, ret, exc, escaped>>
    /\ UNCHANGED <<threadVars, authVars, flowVars, testVars, runnerVars>>

Returned(name, a, r) ==
    /\ pc' = "returned"
    /\ op' = name
    /\ arg' = a
    /\ ret' = r.ret
    /\ exc' = r.exc
    /\ escaped' = r.escaped
    /\ UNCHANGED <<platform, allowed_root, cwd, fs>>
    /\ UNCHANGED <<threadVars, authVars, flowVars, testVars, runnerVars>>

\* a call of is_path_allowed
IsPathAllowed ==
    /\ pc = "ready"
    /\ \E a \in Candidates(allowed_root) :
          Returned("is_path_allowed", a,
                   is_path_allowed(platform, allowed_root, cwd, a))

\* a call of is_path_allowed_safe; what Path.resolve returns for a string on
\* Windows depends on the volume (final path names, on-disk case) and is
\* left out
IsPathAllowedSafe ==
    /\ pc = "ready"
    /\ \E a \in Candidates(allowed_root) :
          /\ platform = "Windows" => a.type # "str"
          /\ Returned("is_path_allowed_safe", a,
                      is_path_allowed_safe(platform, allowed_root, cwd, fs, a))

\* the caller takes the result; the next call starts afresh
NextCall ==
    /\ pc = "returned"
    /\ pc' = "ready"
    /\ op' = "none"
    /\ arg' = NoArg
    /\ ret' = FALSE
    /\ exc' = "none"
    /\ escaped' = FALSE
    /\ UNCHANGED <<platform, allowed_root, cwd, fs>>
    /\ UNCHANGED <<threadVars, authVars, flowVars, testVars, runnerVars>>

Next ==
    \/ Chdir
    \/ Symlink
    \/ SymlinkCycle
    \/ SymlinkChain
    \/ SetAllowedRoot
    \/ IsPathAllowed
    \/ IsPathAllowedSafe
    \/ NextCall

Spec == Init /\ [][Next]_vars

----------------------------------------------------------------------------
(* Concurrent calls of is_path_allowed on one fuzzer: each thread takes    *)
(* the method's statements one at a time.                                  *)

\* the candidates of the concurrent callers
ThreadCandidates(root) ==
    { Str(root), Str(root \o <<Slash, "a">>), Str(root \o <<"a">>),
      Str(<<"a">>), Str(<<Dot, Dot>>), Str(<<Tilde>>), Str(<<Tilde, NUL>>),
      NonStr("int") }

\* "file_path = v" written to an attribute of the fuzzer, which every
\* thread's call reads, instead of to the local variable
StoreFilePathShared(c, t, v) == [u \in DOMAIN c |-> [c[u] EXCEPT !.file_path = v]]

\* "file_path = v": the local variable of thread t's call
StoreFilePath(c, t, v) == [c EXCEPT ![t].file_path = v]

\* the except clause is entered, or an exception leaves the method
Excepted(c, t, r) ==
    [c EXCEPT ![t].pc = "done", ![t].ret = ExceptReturn(r).ret, ![t].exc = r.kind]

ThreadInit ==
    /\ platform \in {"Linux", "Windows"}
    /\ allowed_root = InitRoot(platform)
    /\ cwd \in Cwds(platform)
    /\ fs = {}
    /\ pc = "ready"
    /\ op = "none"
    /\ arg = NoArg
    /\ ret = FALSE
    /\ exc = "none"
    /\ escaped = FALSE
    /\ NoCalls
    /\ NoAuth
    /\ NoAttempts
    /\ NoTest
    /\ NoRun

\* thread t calls is_path_allowed(a): file_path is the parameter
Call(t) ==
    /\ calls[t].pc = "idle"
    /\ \E a \in ThreadCandidates(allowed_root) :
          calls' = [StoreFilePath(calls, t, a.s) EXCEPT ![t].pc = "expand", ![t].arg = a]
    /\ UNCHANGED <<envVars, callVars, authVars, flowVars, testVars, runnerVars>>

\* lines 55-57: if file_path.startswith('~'): file_path = expanduser(...)
Expand(t) ==
    /\ calls[t].pc = "expand"
    /\ LET r == IF calls[t].arg.type # "str" THEN Raise("AttributeError")
                ELSE IF StartsWith(calls[t].file_path, <<Tilde>>)
                THEN ExpandUser(platform, calls[t].file_path)
                ELSE Ok(calls[t].file_path)
       IN  calls' = IF r.kind # "ok" THEN Excepted(calls, t, r)
                    ELSE [StoreFilePath(calls, t, r.val) EXCEPT ![t].pc = "absolute"]
    /\ UNCHANGED <<envVars, callVars, authVars, flowVars, testVars, runnerVars>>

\* lines 60-61: if not isabs(file_path): file_path = abspath(file_path)
MakeAbsolute(t) ==
    /\ calls[t].pc = "absolute"
    /\ LET r == IF ~IsAbs(platform, calls[t].file_path)
                THEN Abspath(platform, calls[t].file_path, cwd)
                ELSE Ok(calls[t].file_path)
       IN  calls' = IF r.kind # "ok" THEN Excepted(calls, t, r)
                    ELSE [StoreFilePath(calls, t, r.val) EXCEPT ![t].pc = "root"]
    /\ UNCHANGED <<envVars, callVars, authVars, flowVars, testVars, runnerVars>>

\* lines 64-66: root_path = self.allowed_root, made absolute
ReadRoot(t) ==
    /\ calls[t].pc = "root"
    /\ LET r == IF ~IsAbs(platform, allowed_root)
                THEN Abspath(platform, allowed_root, cwd)
                ELSE Ok(allowed_root)
       IN  calls' = IF r.kind # "ok" THEN Excepted(calls, t, r)
                    ELSE [calls EXCEPT ![t].root_path = r.val, ![t].pc = "compare"]
    /\ UNCHANGED <<envVars, callVars, authVars, flowVars, testVars, runnerVars>>

\* lines 72-80: the comparison and the return
Compare(t) ==
    /\ calls[t].pc = "compare"
    /\ calls' = [calls EXCEPT ![t].pc = "done",
                              ![t].ret = PrefixMatch(calls[t].file_path, calls[t].root_path)]
    /\ UNCHANGED <<envVars, callVars, authVars, flowVars, testVars, runnerVars>>

\* the caller of thread t takes the result
Return(t) ==
    /\ calls[t].pc = "done"
    /\ calls' = [calls EXCEPT ![t] = Idle]
    /\ UNCHANGED <<envVars, callVars, authVars, flowVars, testVars, runnerVars>>

ThreadNext ==
    \E t \in Threads :
        \/ Call(t)
        \/ Expand(t)
        \/ MakeAbsolute(t)
        \/ ReadRoot(t)
        \/ Compare(t)
        \/ Return(t)

ThreadSpec == ThreadInit /\ [][ThreadNext]_vars

----------------------------------------------------------------------------
(* ClientAuthenticationFuzzer of                                           *)
(* src/fuzzing_tests/test_authentication_system.py.  A password is         *)
(* [type, s] with s the sequence of its code points.                       *)

\* self.max_password_length
max_password_length == 16

\* the keys of self.server_responses, and their messages
server_responses ==
    [r \in {"OK", "FAIL", "ERROR", "TIMEOUT"} |->
        CASE r = "OK" -> "Authentication successful"
          [] r = "FAIL" -> "Authentication failed"
          [] r = "ERROR" -> "Server error"
          [] r = "TIMEOUT" -> "Connection timeout"]

\* control_chars of validate_client_input, in the order of the list:
\* \x01..\x08 and \x0e..\x1f
control_chars == [i \in 1..26 |-> IF i <= 8 THEN i ELSE i + 5]

HexDigits == <<"0", "1", "2", "3", "4", "5", "6", "7", "8", "9",
               "a", "b", "c", "d", "e", "f">>

\* repr(char) of a control character: '\xNN'
Repr(c) == <<"'", "\\", "x", HexDigits[(c \div 16) + 1], HexDigits[(c % 16) + 1], "'">>

\* str(n) of a number below 100
Decimal(n) ==
    IF n < 10 THEN <<HexDigits[n + 1]>>
    ELSE <<HexDigits[(n \div 10) + 1], HexDigits[(n % 10) + 1]>>

\* "c in password"
Contains(s, c) == \E i \in 1..Len(s) : s[i] = c

\* the first element of control_chars found in the password, 0 if none
RECURSIVE FirstControl(_, _)
FirstControl(s, i) ==
    IF i > Len(control_chars) THEN 0
    ELSE IF Contains(s, control_chars[i]) THEN control_chars[i]
    ELSE FirstControl(s, i + 1)

\* validate_client_input with the isinstance check left out: len() and
\* "in" are applied to whatever has them (a list, a dict), and raise
\* TypeError on an int or a plain object
ValidateUntyped(p) ==
    IF p.type = "NoneType"
    THEN AuthResult(FALSE, <<"Password cannot be None">>, NoArg, "None")
    ELSE IF p.type \in {"int", "object"}
    THEN AuthResult(FALSE, <<"TypeError">>, NoArg, "raised")
    ELSE IF Len(p.s) > max_password_length
    THEN AuthResult(FALSE, <<"Password exceeds maximum length of ">>
                               \o Decimal(max_password_length), NoArg, "None")
    ELSE IF Contains(p.s, 0)
    THEN AuthResult(FALSE, <<"Null bytes not allowed in GUI input">>, NoArg, "None")
    ELSE IF FirstControl(p.s, 1) # 0
    THEN AuthResult(FALSE, <<"Control character not allowed: ">>
                               \o Repr(FirstControl(p.s, 1)), NoArg, "None")
    ELSE AuthResult(TRUE, <<"Client validation passed">>, NoArg, "None")

\* validate_client_input with the null check before the length check
ValidateNullFirst(p) ==
    IF p.type = "NoneType"
    THEN AuthResult(FALSE, <<"Password cannot be None">>, NoArg, "None")
    ELSE IF p.type # "str"
    THEN AuthResult(FALSE, <<"Password must be string">>, NoArg, "None")
    ELSE IF Contains(p.s, 0)
    THEN AuthResult(FALSE, <<"Null bytes not allowed in GUI input">>, NoArg, "None")
    ELSE IF Len(p.s) > max_password_length
    THEN AuthResult(FALSE, <<"Password exceeds maximum length of ">>
                               \o Decimal(max_password_length), NoArg, "None")
    ELSE IF FirstControl(p.s, 1) # 0
    THEN AuthResult(FALSE, <<"Control character not allowed: ">>
                               \o Repr(FirstControl(p.s, 1)), NoArg, "None")
    ELSE AuthResult(TRUE, <<"Client validation passed">>, NoArg, "None")

\* validate_client_input without the length check
ValidateUnbounded(p) ==
    IF p.type = "NoneType"
    THEN AuthResult(FALSE, <<"Password cannot be None">>, NoArg, "None")
    ELSE IF p.type # "str"
    THEN AuthResult(FALSE, <<"Password must be string">>, NoArg, "None")
    ELSE IF Contains(p.s, 0)
    THEN AuthResult(FALSE, <<"Null bytes not allowed in GUI input">>, NoArg, "None")
    ELSE IF FirstControl(p.s, 1) # 0
    THEN AuthResult(FALSE, <<"Control character not allowed: ">>
                               \o Repr(FirstControl(p.s, 1)), NoArg, "None")
    ELSE AuthResult(TRUE, <<"Client validation passed">>, NoArg, "None")

\* validate_client_input: (is_valid, message)
validate_client_input(p) ==
    IF p.type = "NoneType"
    THEN AuthResult(FALSE, <<"Password cannot be None">>, NoArg, "None")
    ELSE IF p.type # "str"
    THEN AuthResult(FALSE, <<"Password must be string">>, NoArg, "None")
    ELSE IF Len(p.s) > max_password_length
    THEN AuthResult(FALSE, <<"Password exceeds maximum length of ">>
                               \o Decimal(max_password_length), NoArg, "None")
    ELSE IF Contains(p.s, 0)
    THEN AuthResult(FALSE, <<"Null bytes not allowed in GUI input">>, NoArg, "None")
    ELSE IF FirstControl(p.s, 1) # 0
    THEN AuthResult(FALSE, <<"Control character not allowed: ">>
                               \o Repr(FirstControl(p.s, 1)), NoArg, "None")
    ELSE AuthResult(TRUE, <<"Client validation passed">>, NoArg, "None")

\* simulate_password_dialog: (success, message, validated password); an
\* exception of the validation is caught and reported as a dialog error
simulate_password_dialog(p) ==
    LET v == validate_client_input(p)
    IN  IF v.code = "raised"
        THEN AuthResult(FALSE, <<"Dialog error: ">> \o v.message, NoArg, "None")
        ELSE IF ~v.success THEN AuthResult(FALSE, v.message, NoArg, "None")
        ELSE AuthResult(TRUE, <<"Dialog confirmed">>, p, "None")

\* the number of bytes of the UTF-8 encoding of a code point; 0 for a
\* surrogate, which str.encode refuses with UnicodeEncodeError
Utf8Len(c) ==
    IF c < 128 THEN 1
    ELSE IF c < 2048 THEN 2
    ELSE IF c >= 55296 /\ c <= 57343 THEN 0
    ELSE IF c < 65536 THEN 3
    ELSE 4

\* len(password.encode('utf-8')): the bytes of all the code points
Utf8Size(s) ==
    Cardinality({b \in (1..Len(s)) \X (1..4) : b[2] <= Utf8Len(s[b[1]])})

\* the transmission size limit of simulate_network_send, in bytes
NetworkLimit == 8192

\* simulate_network_send: (success, message); the text of an exception is
\* kept as its class name.  A value without encode() raises
\* AttributeError, which the last except clause reports.
simulate_network_send(p) ==
    IF p.type # "str"
    THEN AuthResult(FALSE, <<"Network error: ", "AttributeError">>, NoArg, "None")
    ELSE IF \E i \in 1..Len(p.s) : Utf8Len(p.s[i]) = 0
    THEN AuthResult(FALSE, <<"Encoding error: ", "UnicodeEncodeError">>, NoArg, "None")
    ELSE IF Utf8Size(p.s) > NetworkLimit
    THEN AuthResult(FALSE, <<"Password too large for network transmission">>, NoArg, "None")
    ELSE AuthResult(TRUE, <<"Network send successful">>, NoArg, "None")

\* simulate_server_response with an unknown response type let through as OK
ServerResponseLenient(p, response_type) ==
    LET r == IF response_type \notin DOMAIN server_responses THEN "OK" ELSE response_type
    IN  AuthResult(r = "OK", <<server_responses[r]>>, NoArg, r)

\* simulate_server_response: (response_type, message)
simulate_server_response(p, response_type) ==
    LET r == IF response_type \notin DOMAIN server_responses THEN "ERROR" ELSE response_type
    IN  AuthResult(r = "OK", <<server_responses[r]>>, NoArg, r)

\* full_authentication_flow: (success, message, response code)
full_authentication_flow(p, response) ==
    LET dialog == simulate_password_dialog(p)
    IN  IF ~dialog.success
        THEN AuthResult(FALSE, <<"Dialog failed: ">> \o dialog.message, NoArg, "None")
        ELSE LET network == simulate_network_send(dialog.value)
             IN  IF ~network.success
                 THEN AuthResult(FALSE, <<"Network failed: ">> \o network.message, NoArg, "None")
                 ELSE LET server == simulate_server_response(dialog.value, response)
                      IN  IF server.code = "OK"
                          THEN AuthResult(TRUE, <<"Authentication successful">>, NoArg, server.code)
                          ELSE AuthResult(FALSE, <<"Server rejected: ">> \o server.message,
                                          NoArg, server.code)

\* Longest string of free code points at the end of a password.
MaxTail == 2

\* the code points of a password's tail: the null character, blocked and
\* allowed control characters, vertical tab, space, a letter, a surrogate
\* and a character outside the basic plane
PasswordChars == {0, 1, 9, 10, 11, 12, 13, 14, 31, 32, 97, 55296, 128512}

\* a password is letters, or characters of four bytes, up to a length
\* around the limit, then a free tail
PadLengths == {0, max_password_length - 2, max_password_length - 1, max_password_length}
Pad(n) == [i \in 1..n |-> 65]
WidePad(n) == [i \in 1..n |-> 128512]
Tails == UNION {[1..n -> PasswordChars] : n \in 0..MaxTail}

\* the passwords around the transmission size limit: one that fills it
\* and one that exceeds it by a byte, in letters and in four-byte characters
HugePasswords ==
    {Str(Pad(NetworkLimit)), Str(Pad(NetworkLimit + 1)),
     Str(WidePad(NetworkLimit \div 4)), Str(WidePad((NetworkLimit \div 4) + 1))}

Passwords ==
    {Str(Pad(n) \o tail) : n \in PadLengths, tail \in Tails}
        \cup {Str(WidePad(n) \o tail) : n \in PadLengths, tail \in Tails}
        \cup HugePasswords
        \cup {NonStr(ty) : ty \in {"NoneType", "int", "list", "dict", "object"}}

\* the textual replies of the server: the four known ones, an unknown one
\* and one that differs from OK by its case
ServerResponses == {"OK", "FAIL", "ERROR", "TIMEOUT", "UNKNOWN", "ok"}

AuthInit ==
    /\ platform = "Linux"
    /\ allowed_root = InitRoot(platform)
    /\ cwd = <<Slash>>
    /\ fs = {}
    /\ pc = "ready"
    /\ op = "none"
    /\ arg = NoArg
    /\ ret = FALSE
    /\ exc = "none"
    /\ escaped = FALSE
    /\ NoCalls
    /\ NoAuth
    /\ NoAttempts
    /\ NoTest
    /\ NoRun

AuthReturned(name, p, response, r) ==
    /\ auth_pc' = "returned"
    /\ auth_op' = name
    /\ password' = p
    /\ server_response' = response
    /\ auth_ret' = r
    /\ UNCHANGED <<envVars, callVars, threadVars, flowVars, testVars, runnerVars>>

\* a call of validate_client_input
ValidateClientInput ==
    /\ auth_pc = "ready"
    /\ \E p \in Passwords :
          AuthReturned("validate_client_input", p, "OK", validate_client_input(p))

\* a call of simulate_password_dialog
SimulatePasswordDialog ==
    /\ auth_pc = "ready"
    /\ \E p \in Passwords :
          AuthReturned("simulate_password_dialog", p, "OK", simulate_password_dialog(p))

\* a direct call of simulate_network_send
SimulateNetworkSend ==
    /\ auth_pc = "ready"
    /\ \E p \in Passwords :
          AuthReturned("simulate_network_send", p, "OK", simulate_network_send(p))

\* a call of full_authentication_flow
FullAuthenticationFlow ==
    /\ auth_pc = "ready"
    /\ \E p \in Passwords, response \in ServerResponses :
          AuthReturned("full_authentication_flow", p, response,
                       full_authentication_flow(p, response))

\* the caller takes the result
AuthNextCall ==
    /\ auth_pc = "returned"
    /\ auth_pc' = "ready"
    /\ auth_op' = "none"
    /\ password' = NoArg
    /\ server_response' = "OK"
    /\ auth_ret' = AuthResult(FALSE, <<>>, NoArg, "None")
    /\ UNCHANGED <<envVars, callVars, threadVars, flowVars, testVars, runnerVars>>

AuthNext ==
    \/ ValidateClientInput
    \/ SimulatePasswordDialog
    \/ SimulateNetworkSend
    \/ FullAuthenticationFlow
    \/ AuthNextCall

AuthSpec == AuthInit /\ [][AuthNext]_vars

----------------------------------------------------------------------------
(* Concurrent authentication attempts: the worker threads of               *)
(* test_concurrent_authentication_attempts, each running                   *)
(* full_authentication_flow one statement at a time on the shared fuzzer   *)
(* and appending its result to the shared list.                            *)

\* what the workers are handed: a short and a 16-character password, one
\* that is too long, one with a null byte, one that cannot be encoded, and
\* None
WorkerPasswords ==
    {Str(<<97>>), Str(Pad(max_password_length)), Str(Pad(max_password_length + 1)),
     Str(<<97, 0>>), Str(<<55296>>), NonStr("NoneType")}

WorkerResponses == {"OK", "FAIL"}

\* "result = ..." kept in an attribute of the shared fuzzer instead of a
\* local variable
SetResultShared(a, w, r) == [v \in DOMAIN a |-> [a[v] EXCEPT !.result = r]]

\* "result = ...": the local variable of worker w
SetResult(a, w, r) == [a EXCEPT ![w].result = r]

\* the stage after the dialog when a failed dialog does not end the flow
AfterDialogAlways(dialog) == "network"

\* lines 118-119: "if not dialog_success: return"
AfterDialog(dialog) == IF dialog.success THEN "network" ELSE "append"

\* lines 123-124: "if not network_success: return"
AfterNetwork(network) == IF network.success THEN "server" ELSE "append"

FlowInit ==
    /\ platform = "Linux"
    /\ allowed_root = InitRoot(platform)
    /\ cwd = <<Slash>>
    /\ fs = {}
    /\ pc = "ready"
    /\ op = "none"
    /\ arg = NoArg
    /\ ret = FALSE
    /\ exc = "none"
    /\ escaped = FALSE
    /\ NoCalls
    /\ NoAuth
    /\ NoAttempts
    /\ NoTest
    /\ NoRun

\* worker w is started and calls full_authentication_flow
Start(w) ==
    /\ attempts[w].pc = "idle"
    /\ \E p \in WorkerPasswords, response \in WorkerResponses :
          attempts' = [attempts EXCEPT ![w].pc = "dialog", ![w].password = p,
                                       ![w].server_response = response]
    /\ UNCHANGED <<envVars, callVars, threadVars, authVars, results, testVars, runnerVars>>

\* lines 117-119: the dialog
Dialog(w) ==
    /\ attempts[w].pc = "dialog"
    /\ LET dialog == simulate_password_dialog(attempts[w].password)
           ran == [attempts EXCEPT ![w].stages = Append(@, "dialog"),
                                   ![w].dialog = dialog,
                                   ![w].pc = AfterDialog(dialog)]
       IN  attempts' =
              IF dialog.success THEN ran
              ELSE SetResult(ran, w, AuthResult(FALSE, <<"Dialog failed: ">> \o dialog.message,
                                                NoArg, "None"))
    /\ UNCHANGED <<envVars, callVars, threadVars, authVars, results, testVars, runnerVars>>

\* lines 122-124: the network send of the validated password
Network(w) ==
    /\ attempts[w].pc = "network"
    /\ LET network == simulate_network_send(attempts[w].dialog.value)
           ran == [attempts EXCEPT ![w].stages = Append(@, "network"),
                                   ![w].network = network,
                                   ![w].pc = AfterNetwork(network)]
       IN  attempts' =
              IF network.success THEN ran
              ELSE SetResult(ran, w, AuthResult(FALSE, <<"Network failed: ">> \o network.message,
                                                NoArg, "None"))
    /\ UNCHANGED <<envVars, callVars, threadVars, authVars, results, testVars, runnerVars>>

\* lines 127-132: the server response and the return
Server(w) ==
    /\ attempts[w].pc = "server"
    /\ LET server == simulate_server_response(attempts[w].dialog.value,
                                              attempts[w].server_response)
           ran == [attempts EXCEPT ![w].stages = Append(@, "server"), ![w].pc = "append"]
       IN  attempts' =
              SetResult(ran, w,
                        IF server.code = "OK"
                        THEN AuthResult(TRUE, <<"Authentication successful">>, NoArg, server.code)
                        ELSE AuthResult(FALSE, <<"Server rejected: ">> \o server.message,
                                        NoArg, server.code))
    /\ UNCHANGED <<envVars, callVars, threadVars, authVars, results, testVars, runnerVars>>

\* auth_worker: results.append((password, result)), one step under the
\* interpreter lock; the thread ends
AppendResult(w) ==
    /\ attempts[w].pc = "append"
    /\ results' = Append(results, [password |-> attempts[w].password,
                                   result |-> attempts[w].result])
    /\ attempts' = [attempts EXCEPT ![w].pc = "done"]
    /\ UNCHANGED <<envVars, callVars, threadVars, authVars, testVars, runnerVars>>

FlowNext ==
    \E w \in Workers :
        \/ Start(w)
        \/ Dialog(w)
        \/ Network(w)
        \/ Server(w)
        \/ AppendResult(w)

FlowSpec == FlowInit /\ [][FlowNext]_vars

----------------------------------------------------------------------------
(* The tests of TestFilePathRestrictionsFuzzing, as programs around the    *)
(* calls of a checker: what the statements after a call raise, and what    *)
(* the except clauses do with it.  The checker is any function: a call     *)
(* returns any value or raises any exception derived from Exception.       *)

Tests ==
    {"test_allowed_paths", "test_directory_traversal_attacks",
     "test_absolute_path_attacks", "test_unicode_attacks", "test_encoding_attacks",
     "test_random_ascii_suffix_attacks", "test_random_separator_injection",
     "test_random_binary_injection", "test_random_edge_case_paths",
     "test_symlink_attacks", "test_long_path_attacks", "test_special_device_files",
     "test_network_paths", "test_relative_path_attacks", "test_null_byte_injection",
     "test_case_sensitivity_attacks", "test_mixed_separator_attacks",
     "test_cpp_specific_edge_cases", "test_prefix_boundary_attacks",
     "test_cpp_filesystem_normalization", "test_exception_handling",
     "test_cpp_vulnerability_detection", "test_cpp_vulnerability_showcase"}

\* the calls of a checker the test makes for one example: the length of
\* its list of paths, 0 when the example is skipped by the test's own
\* condition (an empty cleaned name, a character that is not printable,
\* the platform) or the preparation of the symbolic link fails
TestCalls(t, plat) ==
    CASE t \in {"test_allowed_paths", "test_unicode_attacks"} -> {0, 1}
      [] t = "test_random_ascii_suffix_attacks" -> {0, 3}
      [] t = "test_random_separator_injection" -> {2}
      [] t = "test_symlink_attacks" -> IF plat = "Windows" THEN {0} ELSE {0, 1}
      [] t = "test_special_device_files" -> IF plat = "Windows" THEN {0} ELSE {1}
      [] t \in {"test_network_paths", "test_prefix_boundary_attacks"} -> {5}
      [] t \in {"test_relative_path_attacks", "test_cpp_specific_edge_cases"} -> {7}
      [] t \in {"test_null_byte_injection", "test_case_sensitivity_attacks"} -> {3}
      [] t \in {"test_mixed_separator_attacks", "test_cpp_filesystem_normalization"} -> {4}
      [] t = "test_cpp_vulnerability_detection" -> {12}
      [] t = "test_cpp_vulnerability_showcase" -> {8}
      [] OTHER -> {1}

\* the statements that follow a call of is_path_allowed in the test
TestCheck(t, plat) ==
    CASE t \in {"test_directory_traversal_attacks", "test_absolute_path_attacks",
                "test_special_device_files", "test_network_paths",
                "test_relative_path_attacks", "test_prefix_boundary_attacks"}
            -> "assert not is_allowed"
      [] t \in {"test_mixed_separator_attacks", "test_cpp_specific_edge_cases"}
            -> "assert is_allowed"
      [] t = "test_case_sensitivity_attacks"
            -> IF plat = "Windows" THEN "assert is_allowed" ELSE "assert not is_allowed"
      [] t \in {"test_cpp_filesystem_normalization", "test_exception_handling"}
            -> "assert isinstance"
      [] t \in {"test_allowed_paths", "test_unicode_attacks",
                "test_random_ascii_suffix_attacks", "test_random_separator_injection",
                "test_random_binary_injection", "test_null_byte_injection"}
            -> "normalize_path_cpp_style"
      [] t \in {"test_encoding_attacks", "test_random_edge_case_paths",
                "test_long_path_attacks"}
            -> "normalize_path_cpp_style in try"
      [] t = "test_symlink_attacks" -> "assert realpath"
      [] OTHER -> "compare"

\* the exception these statements raise, or "none".  The fuzzer class
\* defines no normalize_path_cpp_style: the call raises AttributeError, in
\* three tests inside a try of its own with a bare except.  The real path
\* of the test's link is the forbidden file.
CheckRaises(check, out) ==
    CASE check = "assert not is_allowed" -> IF out.truthy THEN "AssertionError" ELSE "none"
      [] check = "assert is_allowed" -> IF out.truthy THEN "none" ELSE "AssertionError"
      [] check = "assert isinstance" -> IF out.isbool THEN "none" ELSE "AssertionError"
      [] check = "normalize_path_cpp_style" -> IF out.truthy THEN "AttributeError" ELSE "none"
      [] check = "assert realpath" -> IF out.truthy THEN "AssertionError" ELSE "none"
      [] OTHER -> "none"

\* the test keeps the call and the statements after it in a try of their
\* own inside the loop: "except Exception: pass", then the next path
InnerTry(t) == t = "test_null_byte_injection"

\* the except clauses of the test's outer try block
TestHandler(t) ==
    IF t = "test_prefix_boundary_attacks" THEN "except AssertionError: raise"
    ELSE IF t = "test_exception_handling" THEN "pytest.fail"
    ELSE "pass"

\* an outer handler that lets assertion errors through in every test
HandleReraise(handler, e) ==
    IF handler = "pytest.fail" \/ e = "AssertionError" THEN "failed" ELSE "passed"

\* how the test ends when exception e, derived from Exception, reaches
\* the outer handler
Handle(handler, e) ==
    IF handler = "pass" THEN "passed"
    ELSE IF handler = "except AssertionError: raise"
    THEN IF e = "AssertionError" THEN "failed" ELSE "passed"
    ELSE "failed"

\* what a call of a checker can do
CheckerOutcomes ==
    {Returns(truthy, isbool) : truthy, isbool \in BOOLEAN}
        \cup {Raises(e) : e \in ExceptionClasses \cup {"AssertionError"}}

TestInit ==
    /\ platform \in {"Linux", "Windows"}
    /\ allowed_root = InitRoot(platform)
    /\ cwd = IF platform = "Windows" THEN <<"C", ":", "\\", "w">> ELSE <<Slash>>
    /\ fs = {}
    /\ pc = "ready"
    /\ op = "none"
    /\ arg = NoArg
    /\ ret = FALSE
    /\ exc = "none"
    /\ escaped = FALSE
    /\ NoCalls
    /\ NoAuth
    /\ NoAttempts
    /\ NoTest
    /\ NoRun

\* the loop goes on with the next path, or the try block ends
NextPath ==
    /\ test_left' = test_left - 1
    /\ test_pc' = IF test_left = 1 THEN "passed" ELSE "call"

\* a test is run on one example
StartTest ==
    /\ test_pc = "idle"
    /\ \E t \in Tests : \E n \in TestCalls(t, platform) :
          /\ test' = t
          /\ test_left' = n
          /\ test_pc' = IF n = 0 THEN "passed" ELSE "call"
    /\ UNCHANGED <<checker_out, test_exc>>
    /\ UNCHANGED <<envVars, callVars, threadVars, authVars, flowVars, runnerVars>>

\* the test calls is_path_allowed (or is_path_allowed_safe)
CallChecker ==
    /\ test_pc = "call"
    /\ \E out \in CheckerOutcomes :
          /\ checker_out' = out
          /\ test_exc' = out.class
          /\ test_pc' = IF out.kind = "raise" THEN "raised" ELSE "check"
    /\ UNCHANGED <<test, test_left>>
    /\ UNCHANGED <<envVars, callVars, threadVars, authVars, flowVars, runnerVars>>

\* the statements after the call
Check ==
    /\ test_pc = "check"
    /\ LET e == CheckRaises(TestCheck(test, platform), checker_out)
       IN  /\ test_exc' = e
           /\ IF e = "none" THEN NextPath
              ELSE test_pc' = "raised" /\ UNCHANGED test_left
    /\ UNCHANGED <<test, checker_out>>
    /\ UNCHANGED <<envVars, callVars, threadVars, authVars, flowVars, runnerVars>>

\* an except clause takes the exception
Except ==
    /\ test_pc = "raised"
    /\ IF InnerTry(test) THEN NextPath
       ELSE test_pc' = Handle(TestHandler(test), test_exc) /\ UNCHANGED test_left
    /\ UNCHANGED <<test, checker_out, test_exc>>
    /\ UNCHANGED <<envVars, callVars, threadVars, authVars, flowVars, runnerVars>>

\* the next example, or the next test
EndTest ==
    /\ test_pc \in {"passed", "failed"}
    /\ test' = "none"
    /\ test_pc' = "idle"
    /\ test_left' = 0
    /\ checker_out' = Returns(FALSE, TRUE)
    /\ test_exc' = "none"
    /\ UNCHANGED <<envVars, callVars, threadVars, authVars, flowVars, runnerVars>>

TestNext ==
    \/ StartTest
    \/ CallChecker
    \/ Check
    \/ Except
    \/ EndTest

TestSpec == TestInit /\ [][TestNext]_vars

----------------------------------------------------------------------------
(* run_fuzzing_tests.py: main and the FuzzingTestRunner it builds.  The    *)
(* pytest subprocess of a module is any process: it ends with any return   *)
(* code, runs into the time limit, or cannot be run.  The report files     *)
(* can be written.                                                         *)

\* the longest list of security requirements given with -s
MaxRequirements == 2

\* self.test_modules
test_modules == <<"test_file_path_restrictions", "test_authentication_system">>

\* test_mapping of run_specific_security_tests
test_mapping ==
    [sr \in {"SR-05", "SR-06"} |->
        IF sr = "SR-05" THEN "test_authentication_system"
        ELSE "test_file_path_restrictions"]

\* tests_to_run of run_specific_security_tests: the modules of the known
\* requirements, in the order given
RECURSIVE tests_to_run(_)
tests_to_run(security_requirements) ==
    IF security_requirements = <<>> THEN <<>>
    ELSE (IF Head(security_requirements) \in DOMAIN test_mapping
          THEN <<test_mapping[Head(security_requirements)]>>
          ELSE <<>>) \o tests_to_run(Tail(security_requirements))

\* the command lines: -p, -t with a module name ("" when the option is
\* absent) and -s with requirements out of the parser's choices (<<>> when
\* the option is absent)
TestArgs == {"test_file_path_restrictions", "test_authentication_system", "test_other"}
SecurityArgs == UNION {[1..n -> {"SR-05", "SR-06"}] : n \in 0..MaxRequirements}
Argvs == [parallel : BOOLEAN, test : {""} \cup TestArgs, security : SecurityArgs]

\* the branch main takes
Mode(args) ==
    IF args.test # "" THEN "test"
    ELSE IF args.security # <<>> THEN "security"
    ELSE "all"

\* what subprocess.run does: the return codes of pytest and of a process
\* killed by a signal, after some duration, or an exception
ReturnCodes == {0, 1, 2, 5, -1, -2, -9}
Durations == {1, 120}
SubprocessExceptions == {"TimeoutExpired", "OSError", "UnicodeDecodeError"}
SubprocessOutcomes ==
    {[kind |-> "returncode", returncode |-> c, duration |-> d] :
        c \in ReturnCodes, d \in Durations}
    \cup {[kind |-> k, returncode |-> 0, duration |-> 0] : k \in SubprocessExceptions}

\* an except clause that takes OSError alone
ExceptClauseOsError(kind) ==
    IF kind = "TimeoutExpired" THEN "except subprocess.TimeoutExpired"
    ELSE IF kind = "OSError" THEN "except Exception"
    ELSE "none"

\* the except clause of run_single_test that takes an exception of
\* subprocess.run; every class subprocess.run raises derives from Exception
ExceptClause(kind) ==
    IF kind = "TimeoutExpired" THEN "except subprocess.TimeoutExpired"
    ELSE "except Exception"

\* run_single_test that reports a time-out as a failure
RunSingleTestTimeoutFailed(out) ==
    IF out.kind = "returncode"
    THEN Result(IF out.returncode = 0 THEN "PASSED" ELSE "FAILED",
                out.returncode, out.duration, "result.stderr")
    ELSE IF ExceptClause(out.kind) = "except subprocess.TimeoutExpired"
    THEN Result("FAILED", -1, 300, "Test timed out")
    ELSE Result("ERROR", -2, 0, "str(e)")

\* the result run_single_test stores for a module whose subprocess did out
run_single_test(out) ==
    IF out.kind = "returncode"
    THEN Result(IF out.returncode = 0 THEN "PASSED" ELSE "FAILED",
                out.returncode, out.duration, "result.stderr")
    ELSE IF ExceptClause(out.kind) = "except subprocess.TimeoutExpired"
    THEN Result("TIMEOUT", -1, 300, "Test timed out")
    ELSE Result("ERROR", -2, 0, "str(e)")

\* an assignment that replaces the dictionary by one holding the entry alone
StoreResultAlone(res, test_module, r) ==
    [m \in {test_module} |-> r]

\* self.results[test_module] = r
StoreResult(res, test_module, r) ==
    [m \in DOMAIN res \cup {test_module} |-> IF m = test_module THEN r ELSE res[m]]

\* sum(1 for r in self.results.values() if r['status'] == status)
Count(res, status) == Cardinality({m \in DOMAIN res : res[m].status = status})

\* sum(r['duration'] for r in self.results.values())
RECURSIVE SumDuration(_, _)
SumDuration(res, S) ==
    IF S = {} THEN 0
    ELSE LET m == CHOOSE x \in S : TRUE
         IN  res[m].duration + SumDuration(res, S \ {m})

\* the summary generate_summary_report writes; total_tests is 2, so that
\* passed / total_tests * 100 is computed without rounding
generate_summary_report(res) ==
    LET total_tests == Len(test_modules)
        passed_tests == Count(res, "PASSED")
    IN  [total_tests |-> total_tests,
         passed |-> passed_tests,
         failed |-> Count(res, "FAILED"),
         timeout |-> Count(res, "TIMEOUT"),
         error |-> Count(res, "ERROR"),
         success_rate |-> IF total_tests > 0
                          THEN (passed_tests * 100) \div total_tests ELSE 0,
         total_duration |-> SumDuration(res, DOMAIN res),
         individual_results |-> res]

\* the status main exits with once the runner's call has returned: only
\* the branch that runs all tests calls sys.exit(1)
ExitStatus(mode, res) ==
    IF mode = "all" /\ Count(res, "PASSED") < Cardinality(DOMAIN res) THEN 1 ELSE 0

\* run_tests_sequential on a runner whose results are res, the subprocess
\* of module m doing outs[m]
RECURSIVE run_tests_sequential(_, _, _)
run_tests_sequential(res, modules, outs) ==
    IF modules = <<>> THEN res
    ELSE run_tests_sequential(
            StoreResult(res, Head(modules), run_single_test(outs[Head(modules)])),
            Tail(modules), outs)

\* a thread is outside run_single_test
Done(t) == jobs[t].pc \in {"idle", "returned", "raised"}

RunnerInit ==
    /\ platform = "Linux"
    /\ allowed_root = InitRoot(platform)
    /\ cwd = IF platform = "Windows" THEN <<"C", ":", "\\", "w">> ELSE <<Slash>>
    /\ fs = {}
    /\ pc = "ready"
    /\ op = "none"
    /\ arg = NoArg
    /\ ret = FALSE
    /\ exc = "none"
    /\ escaped = FALSE
    /\ NoCalls
    /\ NoAuth
    /\ NoAttempts
    /\ NoTest
    /\ argv \in Argvs
    /\ run_pc = "main"
    /\ to_run = <<>>
    /\ jobs = [t \in RunnerThreads |-> NoJob]
    /\ subprocess_out = [m \in {} |-> NoOutcome]
    /\ runner_results = [m \in {} |-> NoResult]
    /\ summaries = <<>>
    /\ exit_status = NotExited

\* main parses the command line, builds the runner and calls the method
\* of its mode, which lists the modules to run
main ==
    /\ run_pc = "main"
    /\ LET mode == Mode(argv)
           modules == IF mode = "test" THEN <<argv.test>>
                      ELSE IF mode = "security" THEN tests_to_run(argv.security)
                      ELSE test_modules
       IN  /\ to_run' = modules
           /\ run_pc' = IF modules = <<>> THEN "exit"
                        ELSE IF mode = "all" /\ argv.parallel THEN "parallel"
                        ELSE "sequential"
    /\ UNCHANGED <<argv, jobs, subprocess_out, runner_results, summaries, exit_status>>
    /\ UNCHANGED <<envVars, callVars, threadVars, authVars, flowVars, testVars>>

\* a thread calls run_single_test on the next module: the main thread in
\* a loop, or a worker of the executor of run_tests_parallel
Take(t) ==
    /\ to_run # <<>>
    /\ \/ run_pc = "sequential" /\ t = 0 /\ jobs[t].pc \in {"idle", "returned"}
       \/ run_pc = "parallel" /\ t # 0 /\ Done(t)
    /\ jobs' = [jobs EXCEPT ![t] = [pc |-> "subprocess", test_module |-> Head(to_run),
                                    out |-> NoOutcome, ret |-> NoResult]]
    /\ to_run' = Tail(to_run)
    /\ UNCHANGED <<argv, run_pc, subprocess_out, runner_results, summaries, exit_status>>
    /\ UNCHANGED <<envVars, callVars, threadVars, authVars, flowVars, testVars>>

\* subprocess.run returns or raises
Subprocess(t) ==
    /\ jobs[t].pc = "subprocess"
    /\ \E out \in SubprocessOutcomes :
          /\ jobs' = [jobs EXCEPT ![t].pc = "store", ![t].out = out]
          /\ subprocess_out' =
                [m \in DOMAIN subprocess_out \cup {jobs[t].test_module} |->
                    IF m = jobs[t].test_module THEN out ELSE subprocess_out[m]]
    /\ UNCHANGED <<argv, run_pc, to_run, runner_results, summaries, exit_status>>
    /\ UNCHANGED <<envVars, callVars, threadVars, authVars, flowVars, testVars>>

\* the try block or the except clause that takes the exception stores the
\* module's result; an exception no clause takes leaves run_single_test
Store(t) ==
    /\ jobs[t].pc = "store"
    /\ IF jobs[t].out.kind # "returncode" /\ ExceptClause(jobs[t].out.kind) = "none"
       THEN /\ jobs' = [jobs EXCEPT ![t].pc = "raised"]
            /\ UNCHANGED runner_results
       ELSE /\ runner_results' = StoreResult(runner_results, jobs[t].test_module,
                                             run_single_test(jobs[t].out))
            /\ jobs' = [jobs EXCEPT ![t].pc = "return"]
    /\ UNCHANGED <<argv, run_pc, to_run, subprocess_out, summaries, exit_status>>
    /\ UNCHANGED <<envVars, callVars, threadVars, authVars, flowVars, testVars>>

\* the module's entry is read back, for the log and for the value
\* returned: return self.results[test_module].  Were the entry missing,
\* the KeyError would be taken by except Exception inside the try block
\* and would leave the method from an except clause.
ReturnResult(t) ==
    /\ jobs[t].pc = "return"
    /\ jobs' = IF jobs[t].test_module \in DOMAIN runner_results
               THEN [jobs EXCEPT ![t].pc = "returned",
                                 ![t].ret = runner_results[jobs[t].test_module]]
               ELSE IF jobs[t].out.kind = "returncode"
               THEN [jobs EXCEPT ![t].pc = "store",
                                 ![t].out = [kind |-> "KeyError", returncode |-> 0,
                                             duration |-> 0]]
               ELSE [jobs EXCEPT ![t].pc = "raised"]
    /\ UNCHANGED <<argv, run_pc, to_run, subprocess_out, runner_results, summaries,
                   exit_status>>
    /\ UNCHANGED <<envVars, callVars, threadVars, authVars, flowVars, testVars>>

\* run_all_tests and run_specific_security_tests end with
\* generate_summary_report, once every module was run
GenerateSummaryReport ==
    /\ run_pc \in {"sequential", "parallel"}
    /\ Mode(argv) # "test"
    /\ to_run = <<>>
    /\ \A t \in RunnerThreads : Done(t)
    /\ jobs[0].pc # "raised"
    /\ summaries' = Append(summaries, generate_summary_report(runner_results))
    /\ run_pc' = "exit"
    /\ UNCHANGED <<argv, to_run, jobs, subprocess_out, runner_results, exit_status>>
    /\ UNCHANGED <<envVars, callVars, threadVars, authVars, flowVars, testVars>>

\* the runner's call has returned to main, which prints the counts and
\* ends; an exception that left run_single_test in the main thread ends
\* the process with status 1
Exit ==
    /\ \/ run_pc = "exit"
       \/ run_pc = "sequential" /\ Mode(argv) = "test" /\ to_run = <<>> /\ Done(0)
       \/ run_pc \in {"sequential", "parallel"} /\ jobs[0].pc = "raised"
    /\ exit_status' = IF jobs[0].pc = "raised" THEN 1
                      ELSE ExitStatus(Mode(argv), runner_results)
    /\ run_pc' = "exited"
    /\ UNCHANGED <<argv, to_run, jobs, subprocess_out, runner_results, summaries>>
    /\ UNCHANGED <<envVars, callVars, threadVars, authVars, flowVars, testVars>>

RunnerNext ==
    \/ main
    \/ \E t \in RunnerThreads : Take(t)
    \/ \E t \in RunnerThreads : Subprocess(t)
    \/ \E t \in RunnerThreads : Store(t)
    \/ \E t \in RunnerThreads : ReturnResult(t)
    \/ GenerateSummaryReport
    \/ Exit

RunnerSpec == RunnerInit /\ [][RunnerNext]_vars

----------------------------------------------------------------------------
(* Notions the properties below are stated with.                           *)

Called(name) == pc = "returned" /\ op = name

Seps == {Slash, BSlash}

\* the segment sequence of a path
Segments(p) == PathParts(Split(p, {Slash}))

\* root's segment sequence equals cand's or is a strict prefix of it
SegContained(root, cand) ==
    /\ Len(Segments(root)) <= Len(Segments(cand))
    /\ SubSeq(Segments(cand), 1, Len(Segments(root))) = Segments(root)

\* the candidate is root followed by suffix
IsRootPlus(s, root, suffix) == s = root \o suffix

\* the part of s after the root, when s starts with the root
AfterRoot(s, root) == From(s, Len(root))

\* a plain name component: name characters only, neither "." nor ".."
PlainName(c) ==
    /\ c # <<>>
    /\ \A i \in 1..Len(c) : c[i] \in {"a", Dot}
    /\ c # DotSeg
    /\ c # DotDot

\* "/" c1 "/" ... "/" cn with n >= 1, then at most one trailing "/" or "\"
\* (a trailing "." is part of the last name)
PlainTail(suffix) ==
    /\ Len(suffix) >= 2
    /\ suffix[1] = Slash
    /\ LET body == Tail(suffix)
           cut == IF body[Len(body)] \in Seps THEN SubSeq(body, 1, Len(body) - 1) ELSE body
           comps == Split(cut, {Slash})
       IN  \A i \in 1..Len(comps) : PlainName(comps[i])

----------------------------------------------------------------------------
(* C1..C10: the checkers' decisions.                                       *)

\* C1 (prefix boundary): for every allowed root R and every non-empty
\* suffix S that does not begin with a path separator,
\* is_path_allowed(R + S) returns False.
C1_PrefixBoundaryDenied ==
    ( /\ Called("is_path_allowed")
      /\ arg.type = "str"
      /\ allowed_root[Len(allowed_root)] \notin Seps
      /\ StartsWith(arg.s, allowed_root)
      /\ Len(arg.s) > Len(allowed_root)
      /\ arg.s[Len(allowed_root) + 1] \notin Seps )
    => ret = FALSE

\* C2 (containment rule of the safe checker): for every root, the
\* filesystem root included, is_path_allowed_safe returns True iff the
\* resolved candidate's segment sequence equals the resolved root's or has
\* it as a strict prefix.
C2_SafeDecidesBySegments ==
    ( /\ Called("is_path_allowed_safe")
      /\ arg.type = "str" )
    => LET cand == PosixResolve(Replace(arg.s, BSlash, Slash), cwd, fs)
           root == PosixResolve(allowed_root, cwd, fs)
       IN  ret = ( /\ cand.kind = "ok"
                   /\ root.kind = "ok"
                   /\ SegContained(root.val, cand.val) )

\* C3 (traversal containment): a candidate whose ".." segments climb out of
\* the root R, written after R or relative to the working or home
\* directory, is denied by is_path_allowed.
C3_TraversalDenied ==
    ( /\ Called("is_path_allowed")
      /\ arg.type = "str"
      /\ platform # "Windows"
      /\ \E i \in 1..Len(Split(arg.s, Seps)) : Split(arg.s, Seps)[i] = DotDot
      /\ LET home == PosixExpandUser(arg.s)
         IN  /\ home.kind = "ok"
             /\ PosixAbspath(home.val, cwd).kind = "ok"
             /\ ~SegContained(allowed_root, PosixAbspath(home.val, cwd).val) )
    => ret = FALSE

\* C4 (symlink escape): when a symbolic link located inside the root R
\* points to a target outside R, is_path_allowed on the link's path
\* returns False.
C4_SymlinkEscapeDenied ==
    ( /\ Called("is_path_allowed")
      /\ arg.type = "str"
      /\ \E l \in fs :
            /\ arg.s = l.link
            /\ SegContained(allowed_root, l.link)
            /\ PosixResolve(l.link, cwd, fs).kind = "ok"
            /\ ~SegContained(allowed_root, PosixResolve(l.link, cwd, fs).val) )
    => ret = FALSE

\* C5 (null-byte safety): every candidate that contains a null character is
\* denied by is_path_allowed, and no exception is raised.
C5_NullByteDenied ==
    ( /\ Called("is_path_allowed")
      /\ arg.type = "str"
      /\ HasNul(arg.s) )
    => (ret = FALSE /\ ~escaped)

C7_NonStringDenied ==
    ( /\ pc = "returned"
      /\ op \in {"is_path_allowed", "is_path_allowed_safe"}
      /\ arg.type # "str" )
    => (ret = FALSE /\ ~escaped)

\* C7 witness: is_path_allowed_safe was called with a list and returned
\* False.
C7_Witness ==
    /\ Called("is_path_allowed_safe")
    /\ arg.type = "list"
    /\ exc # "none"
    /\ ret = FALSE
    /\ ~escaped

\* C8 (exact and subdirectory acceptance): is_path_allowed(R),
\* is_path_allowed(R + "/") and is_path_allowed(R + "\") are True, and so is
\* is_path_allowed(R + "/" + c1 + "/" + ... + cn) for plain names c1..cn,
\* with or without a trailing "/", "\" or ".".
C8_RootAndSubdirAllowed ==
    ( /\ Called("is_path_allowed")
      /\ arg.type = "str"
      /\ StartsWith(arg.s, allowed_root)
      /\ \/ AfterRoot(arg.s, allowed_root) \in {<<>>, <<Slash>>, <<BSlash>>}
         \/ PlainTail(AfterRoot(arg.s, allowed_root)) )
    => (ret = TRUE /\ ~escaped)

\* C8 witness: is_path_allowed allowed a path of two plain components under
\* the root.
C8_Witness ==
    /\ Called("is_path_allowed")
    /\ arg.type = "str"
    /\ IsRootPlus(arg.s, allowed_root, <<"/", "a", "/", "a">>)
    /\ ret = TRUE

\* C9 (separator normalization): a path inside the root is allowed by
\* is_path_allowed however its separators are spelled: the root written
\* with "/" or with "\", mixed, doubled separators and "./" segments.
C9_SeparatorSpellingsAllowed ==
    ( /\ Called("is_path_allowed")
      /\ arg.type = "str"
      /\ \E pre \in {allowed_root, Replace(allowed_root, Slash, BSlash),
                     Replace(allowed_root, BSlash, Slash)} :
         \E suf \in { <<"/", "a">>, <<"\\", "a">>, <<"/", "/", "a">>,
                      <<"\\", "\\", "a">>, <<"/", "a", "\\", "a">>,
                      <<"\\", "a", "\\", "a">>, <<"/", ".", "/", "a">>,
                      <<"/", "/", "a", "/", ".", "/", "a">> } :
            arg.s = pre \o suf )
    => ret = TRUE

\* C10 (case policy): on Windows is_path_allowed allows R.upper(),
\* R.lower() and R.swapcase() followed by a separator and a file name; on
\* a case-sensitive platform the same candidate is allowed only if it
\* begins with R in exactly matching case.
C10_CasePolicy ==
    ( /\ Called("is_path_allowed")
      /\ arg.type = "str"
      /\ \E pre \in {Upper(allowed_root), Lower(allowed_root), SwapCase(allowed_root)} :
         \E sep \in Seps :
            arg.s = pre \o <<sep, "a">> )
    => IF platform = "Windows"
       THEN ret = TRUE
       ELSE ret = StartsWith(arg.s, allowed_root)

----------------------------------------------------------------------------
(* C11..C17: canonicalization, the root, ambient state and links.          *)

\* C11 (idempotent canonicalization): for every string p that
\* canonicalizes successfully, canonicalizing the result again returns it
\* unchanged, for the canonicalization of is_path_allowed and for that of
\* is_path_allowed_safe.
C11_CanonicalizeIdempotent ==
    ( /\ pc = "returned"
      /\ arg.type = "str" )
    => IF op = "is_path_allowed"
       THEN LET c == Canonicalize(platform, arg.s, cwd)
            IN  c.kind = "ok" => Canonicalize(platform, c.val, cwd) = c
       ELSE LET c == CanonicalizeSafe(arg.s, cwd, fs)
            IN  c.kind = "ok" => CanonicalizeSafe(c.val, cwd, fs) = c

\* C11 witness: is_path_allowed_safe was called on the first link of the
\* chain, and the canonical form it compared is the file at the chain's end.
C11_Witness ==
    /\ Called("is_path_allowed_safe")
    /\ fs = ChainLinks
    /\ arg = Str(ChainPath(1))
    /\ CanonicalizeSafe(arg.s, cwd, fs) = Ok(ChainPath(MaxHops + 2))

\* a path that names a network location: "//server/...", "\\server\...",
\* or a scheme followed by "://"
NetworkStyle(s) ==
    \/ StartsWith(s, <<Slash, Slash>>)
    \/ StartsWith(s, <<BSlash, BSlash>>)
    \/ StartsWith(s, SubSeq(SchemePath, 1, 5))

\* an absolute path that does not begin with the root in any spelling
AbsoluteOutside(plat, root, s) ==
    /\ IsAbs(plat, s)
    /\ \A pre \in Prefixes(root) \ {<<>>} : ~StartsWith(s, pre)

\* C12 (outside paths are blocked): is_path_allowed returns False for every
\* absolute path outside the root and for every network-style path,
\* whatever the working directory of the process is.
C12_OutsidePathsDenied ==
    ( /\ Called("is_path_allowed")
      /\ arg.type = "str"
      /\ allowed_root # FsRoot
      /\ \/ NetworkStyle(arg.s)
         \/ AbsoluteOutside(platform, allowed_root, arg.s) )
    => ret = FALSE

\* C13 (the root is fixed at construction): no step changes allowed_root,
\* and in every state it is a non-empty absolute path, so that no call
\* derives it from the working directory.
C13_RootFixedAbsolute ==
    /\ [](allowed_root # <<>> /\ IsAbs(platform, allowed_root))
    /\ [][allowed_root' = allowed_root]_vars

\* C14 (explicit base, deterministic decision): the decision of
\* is_path_allowed depends on the candidate and the root only; the same call
\* made under any other working directory of the process returns the same
\* decision.
C14_DecisionIgnoresWorkingDirectory ==
    Called("is_path_allowed")
    => \A d \in Cwds(platform) :
          is_path_allowed(platform, allowed_root, d, arg).ret = ret

\* C15 (validation calls are independent): under every interleaving of
\* concurrent calls of is_path_allowed on one fuzzer, and after any earlier
\* calls, each call returns the decision the same call returns when it
\* runs alone.
C15_CallsIndependent ==
    \A t \in Threads :
        calls[t].pc = "done"
        => calls[t].ret = is_path_allowed(platform, allowed_root, cwd, calls[t].arg).ret

\* C15 witness: one thread's call has returned True while another thread,
\* called with a different candidate, is between two statements of the
\* method.
C15_Witness ==
    \E t \in Threads, u \in Threads :
        /\ t # u
        /\ calls[t].pc = "done"
        /\ calls[t].ret = TRUE
        /\ calls[u].pc \in {"absolute", "root", "compare"}
        /\ calls[u].arg # calls[t].arg

LinksExceedBound(s) ==
    LET p == Replace(s, BSlash, Slash)
    IN  /\ ~HasNul(p)
        /\ PosixIsAbs(p) \/ cwd # <<>>
        /\ StatLoops(fs, AbsPath(<<>>),
                     IF PosixIsAbs(p) THEN Parts(p) ELSE Parts(cwd) \o Parts(p), 0)

\* C17 (bounded symlink resolution): when the candidate's components form
\* a cycle of symbolic links, or a chain of more links than the hop bound,
\* is_path_allowed_safe returns False and raises nothing.
C17_LinkLoopDenied ==
    ( /\ Called("is_path_allowed_safe")
      /\ arg.type = "str"
      /\ platform # "Windows"
      /\ LinksExceedBound(arg.s) )
    => (ret = FALSE /\ ~escaped)


----------------------------------------------------------------------------
(* C18..C20: the password checks of ClientAuthenticationFuzzer.            *)

\* a call of the named method has returned
AuthDone(name) == auth_pc = "returned" /\ auth_op = name

\* a string of at most 16 characters without a null byte and without a
\* control character below 0x20 other than tab, line feed, form feed and
\* carriage return
Acceptable(p) ==
    /\ p.type = "str"
    /\ Len(p.s) <= 16
    /\ ~Contains(p.s, 0)
    /\ \A i \in 1..Len(p.s) : p.s[i] < 32 => p.s[i] \in {9, 10, 12, 13}

\* C18 (password acceptance rule): validate_client_input returns valid
\* exactly for a string of at most 16 characters that holds no null byte
\* and no control character below 0x20 other than tab, line feed, form
\* feed and carriage return.
C18_PasswordAcceptanceRule ==
    AuthDone("validate_client_input") => (auth_ret.success <=> Acceptable(password))

\* the message contains 'exceeds maximum length'
ExceedsLength(m) == \E i \in 1..Len(m) : m[i] = "Password exceeds maximum length of "

\* the message mentions null
MentionsNull(m) == \E i \in 1..Len(m) : m[i] = "Null bytes not allowed in GUI input"

\* the message names a control character
NamesControl(m) == m # <<>> /\ m[1] = "Control character not allowed: "

\* the password holds one of the characters of control_chars
HasControl(p) == \E i \in 1..Len(control_chars) : Contains(p.s, control_chars[i])

\* C19 (rejection reason priority): the message of validate_client_input
\* names the first failing check in the order None, non-string, length,
\* null byte, control character: a string longer than 16 characters is
\* rejected for its length whatever it holds, a string of at most 16
\* characters with a null byte is rejected for the null byte even when it
\* holds blocked control characters too, and a control character is named
\* only when the four earlier checks pass.
C19_FirstFailingCheckNamed ==
    AuthDone("validate_client_input") =>
        LET short == password.type = "str" /\ Len(password.s) <= 16
        IN  /\ password.type = "NoneType" =>
                ~auth_ret.success /\ auth_ret.message = <<"Password cannot be None">>
            /\ password.type \notin {"NoneType", "str"} =>
                ~auth_ret.success /\ auth_ret.message = <<"Password must be string">>
            /\ (password.type = "str" /\ Len(password.s) > 16) =>
                ~auth_ret.success /\ ExceedsLength(auth_ret.message)
            /\ (short /\ Contains(password.s, 0)) =>
                ~auth_ret.success /\ MentionsNull(auth_ret.message)
            /\ (short /\ ~Contains(password.s, 0) /\ HasControl(password)) =>
                ~auth_ret.success /\ NamesControl(auth_ret.message)
            /\ NamesControl(auth_ret.message) =>
                short /\ ~Contains(password.s, 0) /\ HasControl(password)

\* a string longer than 16 characters that holds a null byte and a blocked
\* control character was rejected
C19_Witness ==
    /\ AuthDone("validate_client_input")
    /\ password.type = "str"
    /\ Len(password.s) > 16
    /\ Contains(password.s, 0)
    /\ HasControl(password)
    /\ ~auth_ret.success

\* C20 (non-string credentials): for None and for every value that is not
\* a string, simulate_password_dialog returns success False with no
\* validated password and full_authentication_flow returns success False
\* with the response code None; neither raises.
C20_NonStringFailsQuietly ==
    password.type # "str" =>
        /\ AuthDone("simulate_password_dialog") =>
              /\ ~auth_ret.success
              /\ auth_ret.value = NoArg
              /\ auth_ret.code # "raised"
              /\ auth_ret.message[1] # "Dialog error: "
        /\ AuthDone("full_authentication_flow") =>
              /\ ~auth_ret.success
              /\ auth_ret.code = "None"

\* full_authentication_flow was handed a list while the server would answer OK
C20_Witness ==
    /\ AuthDone("full_authentication_flow")
    /\ password.type = "list"
    /\ server_response = "OK"
    /\ ~auth_ret.success


----------------------------------------------------------------------------
(* C21..C30.                                                               *)

\* str.encode('utf-8') succeeds: the string holds no surrogate
Encodable(p) == \A i \in 1..Len(p.s) : ~(p.s[i] >= 55296 /\ p.s[i] <= 57343)

TooLarge(m) == \E i \in 1..Len(m) : m[i] = "Password too large for network transmission"

\* C30 (the network size limit is unreachable through the flow): a
\* password that passes validate_client_input has at most 16 characters,
\* hence at most 64 UTF-8 bytes, so full_authentication_flow never returns
\* the message of the 8192-byte check; that message comes from a direct
\* call of simulate_network_send only.
C30_SizeLimitUnreachable ==
    /\ (AuthDone("validate_client_input") /\ auth_ret.success) =>
          Len(password.s) <= 16 /\ Utf8Size(password.s) <= 64
    /\ AuthDone("full_authentication_flow") => ~TooLarge(auth_ret.message)
    /\ (auth_pc = "returned" /\ TooLarge(auth_ret.message)) =>
          auth_op = "simulate_network_send"

\* the flow sent a password of 16 characters and 64 bytes to the server
C30_Witness ==
    /\ AuthDone("full_authentication_flow")
    /\ password.type = "str"
    /\ Len(password.s) = 16
    /\ Utf8Size(password.s) = 64
    /\ auth_ret.code # "None"


\* every worker thread has ended (and was joined)
AllJoined == \A w \in Workers : attempts[w].pc = "done"

\* C22 (concurrent authentication attempts are independent): the shared
\* list holds one result per finished worker, so N results once the N
\* threads are joined, and each is what the same call of
\* full_authentication_flow returns when run alone, under every
\* interleaving.
C22_AttemptsIndependent ==
    /\ Len(results) = Cardinality({w \in Workers : attempts[w].pc = "done"})
    /\ AllJoined =>
          \E f \in [1..MaxWorkers -> Workers] :
              /\ \A i, j \in 1..MaxWorkers : i # j => f[i] # f[j]
              /\ \A i \in 1..MaxWorkers :
                    results[i] =
                        [password |-> attempts[f[i]].password,
                         result |-> full_authentication_flow(attempts[f[i]].password,
                                                             attempts[f[i]].server_response)]

\* all threads are joined; the worker started last in the list appended
\* first, and one attempt succeeded while another was rejected
C22_Witness ==
    /\ AllJoined
    /\ results[1].password = attempts[MaxWorkers].password
    /\ results[1].password # attempts[1].password
    /\ \E i, j \in 1..Len(results) : results[i].result.success /\ ~results[j].result.success

StageOrder == <<"dialog", "network", "server">>

\* C29 (authentication stages run in order and short-circuit): the flow
\* runs the dialog, then the network send, then the server response; when
\* a stage fails no later stage runs and the response code is None; a
\* response code other than None is returned only after the dialog and the
\* network send succeeded.
C29_StagesInOrder ==
    \A w \in Workers :
        LET a == attempts[w]
            returned == a.pc \in {"append", "done"}
        IN  /\ Len(a.stages) <= Len(StageOrder)
            /\ \A i \in 1..Len(a.stages) : a.stages[i] = StageOrder[i]
            /\ returned => a.stages # <<>>
            /\ (Len(a.stages) >= 1 /\ ~a.dialog.success) =>
                  a.stages = <<"dialog">> /\ (returned => a.result.code = "None")
            /\ (Len(a.stages) >= 2 /\ ~a.network.success) =>
                  a.stages = <<"dialog", "network">> /\ (returned => a.result.code = "None")
            /\ (returned /\ a.result.code # "None") =>
                  a.stages = StageOrder /\ a.dialog.success /\ a.network.success

\* a flow returned after its network send failed: the server was not asked
C29_Witness ==
    \E w \in Workers :
        /\ attempts[w].pc = "done"
        /\ attempts[w].stages = <<"dialog", "network">>
        /\ attempts[w].dialog.success
        /\ ~attempts[w].network.success
        /\ attempts[w].result.code = "None"


\* a path in canonical form: absolute, separated by "/", without "." or
\* ".." segments, without duplicate or trailing separators, and with no
\* symbolic link on it
CanonicalForm(s) ==
    /\ s # <<>>
    /\ s[1] = Slash
    /\ \A i \in 1..Len(s) : s[i] # BSlash
    /\ \/ s = <<Slash>>
       \/ LET comps == Split(Tail(s), {Slash})
          IN  \A i \in 1..Len(comps) : comps[i] \notin {<<>>, DotSeg, DotDot}
    /\ \A l \in fs : ~SegContained(l.link, s)

\* the candidate is the root followed by a non-empty string that does not
\* start with a separator
BoundaryCandidate(s, root) ==
    /\ StartsWith(s, root)
    /\ Len(s) > Len(root)
    /\ s[Len(root) + 1] # Slash

\* C25 (the two checkers differ only on the prefix boundary): for a
\* candidate and a root in canonical form, is_path_allowed and
\* is_path_allowed_safe return the same decision, unless the candidate is
\* the root followed by a non-empty string that does not start with a
\* separator: then is_path_allowed returns True and is_path_allowed_safe
\* returns False.
C25_CheckersDifferOnBoundaryOnly ==
    ( /\ Called("is_path_allowed")
      /\ platform # "Windows"
      /\ arg.type = "str"
      /\ CanonicalForm(arg.s)
      /\ CanonicalForm(allowed_root) )
    => LET safe == is_path_allowed_safe(platform, allowed_root, cwd, fs, arg).ret
       IN  IF BoundaryCandidate(arg.s, allowed_root)
           THEN ret = TRUE /\ safe = FALSE
           ELSE ret = safe


\* C24 (vacuous test assertions): every test of the path-restriction suite
\* other than test_prefix_boundary_attacks and test_exception_handling
\* ends without failure whatever the calls of is_path_allowed return or
\* raise: the assertion errors, and the attribute errors of the calls of
\* the undefined normalize_path_cpp_style, are taken by "except Exception:
\* pass".
C24_AssertionsSwallowed ==
    ( /\ test_pc \in {"passed", "failed"}
      /\ test \notin {"test_prefix_boundary_attacks", "test_exception_handling"} )
    => test_pc = "passed"

\* test_network_paths passed although is_path_allowed allowed a path, and
\* so its assertion failed
C24_Witness ==
    /\ test = "test_network_paths"
    /\ test_pc = "passed"
    /\ checker_out = Returns(TRUE, TRUE)
    /\ test_exc = "AssertionError"

\* C27: run_single_test is total.  Whatever the pytest subprocess does,
\* no exception leaves run_single_test; the value it returns is the entry
\* it stored for its module: PASSED exactly for return code 0, FAILED for
\* any other return code, TIMEOUT with return_code -1 and duration 300
\* when the time limit expired, ERROR with return_code -2 and duration 0
\* for any other exception.  A step changes the entry of one module only,
\* the module of the call that stores, and removes no entry.
C27_RunSingleTestTotal ==
    /\ [](\A t \in RunnerThreads :
            /\ jobs[t].pc # "raised"
            /\ jobs[t].pc = "returned" =>
                  LET out == jobs[t].out
                      r == jobs[t].ret
                  IN  /\ jobs[t].test_module \in DOMAIN runner_results
                      /\ runner_results[jobs[t].test_module] = r
                      /\ out.kind = "returncode" =>
                            /\ r.status = "PASSED" <=> out.returncode = 0
                            /\ out.returncode # 0 => r.status = "FAILED"
                            /\ r.return_code = out.returncode
                      /\ out.kind = "TimeoutExpired" =>
                            r.status = "TIMEOUT" /\ r.return_code = -1 /\ r.duration = 300
                      /\ out.kind \notin {"returncode", "TimeoutExpired"} =>
                            r.status = "ERROR" /\ r.return_code = -2 /\ r.duration = 0)
    /\ [][/\ DOMAIN runner_results \subseteq DOMAIN runner_results'
          /\ Cardinality(DOMAIN runner_results') <= Cardinality(DOMAIN runner_results) + 1
          /\ \A m \in DOMAIN runner_results :
                runner_results'[m] # runner_results[m] =>
                   \E t \in RunnerThreads :
                      /\ jobs[t].pc = "store"
                      /\ jobs[t].test_module = m
                      /\ jobs'[t].pc = "return"]_vars

\* C27 happens: a call returned after its subprocess ran into the time
\* limit, while the result of the other module, stored before, is there
C27_Witness ==
    \E t \in RunnerThreads :
        /\ jobs[t].pc = "returned"
        /\ jobs[t].out.kind = "TimeoutExpired"
        /\ jobs[t].ret.status = "TIMEOUT"
        /\ \E m \in DOMAIN runner_results :
              m # jobs[t].test_module /\ runner_results[m].status = "FAILED"

\* run_all_tests has run every module: run_tests_parallel, or
\* run_tests_sequential without -p, has ended
AllRun ==
    /\ Mode(argv) = "all"
    /\ run_pc \in {"sequential", "parallel", "exit", "exited"}
    /\ to_run = <<>>
    /\ \A t \in RunnerThreads : Done(t)

\* C28: parallel and sequential runs agree.  Once run_tests_parallel has
\* ended, under any interleaving of its two workers, self.results holds
\* an entry for each module of test_modules and no other, with the status
\* run_tests_sequential leaves for the same outcomes of the subprocesses;
\* so does the run without -p, which is run_tests_sequential.
C28_ParallelAgreesWithSequential ==
    AllRun
    => /\ DOMAIN runner_results = {test_modules[i] : i \in 1..Len(test_modules)}
       /\ DOMAIN subprocess_out = DOMAIN runner_results
       /\ \A m \in DOMAIN runner_results :
             runner_results[m].status =
                run_tests_sequential([k \in {} |-> NoResult], test_modules,
                                     subprocess_out)[m].status

\* C28 happens: run_tests_parallel has ended, each worker ran one module,
\* and the two modules ended differently
C28_Witness ==
    /\ Mode(argv) = "all" /\ argv.parallel
    /\ run_pc = "exit"
    /\ jobs[1].pc = "returned" /\ jobs[2].pc = "returned"
    /\ jobs[1].test_module = test_modules[2]
    /\ runner_results[test_modules[1]].status = "TIMEOUT"
    /\ runner_results[test_modules[2]].status = "PASSED"

\* C26: the counts of a summary are consistent.  In every summary that
\* generate_summary_report wrote, passed + failed + timeout + error is
\* total_tests and success_rate lies between 0 and 100.
C26_SummaryCountsConsistent ==
    \A i \in 1..Len(summaries) :
        /\ summaries[i].passed + summaries[i].failed + summaries[i].timeout
              + summaries[i].error = summaries[i].total_tests
        /\ summaries[i].success_rate >= 0
        /\ summaries[i].success_rate <= 100

\* C23: the exit status of the runner.  When the process has exited and a
\* module it ran did not end with status PASSED, the exit status is not 0,
\* whichever of the three modes the command line chose.
C23_ExitStatusNonZero ==
    (/\ run_pc = "exited"
     /\ \E m \in DOMAIN runner_results : runner_results[m].status # "PASSED")
    => exit_status # 0

====
